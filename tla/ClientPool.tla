------------------------------ MODULE ClientPool ------------------------------
(***************************************************************************)
(* zclient's controller with the pool of workers of one tcp_share          *)
(* (include/zrp/client.hpp), and the end of the process (zclient.cpp): how *)
(* many workers there are, who adds them, who takes their sockets away.    *)
(*                                                                         *)
(* Main runs ioc_: the controller, the workers, the lambdas of the share's *)
(* wq_ and the coroutines that add workers.  The forwarder threads run     *)
(* forward(): it waits for a visited worker's socket and, when it has got  *)
(* one, looks whether the pool is short.  It reads nr_workers_ while main  *)
(* may not have destroyed the worker yet whose socket it was.  They also   *)
(* run handle_socket(), which connects upstream by a socket of main's      *)
(* ioc_, and the pipes, of which it matters here only whether there are    *)
(* any; what they do is Forwarder.                                         *)
(*                                                                         *)
(* What one thread posts on ioc_ runs in the order posted (ready).  What   *)
(* comes from a connection may come at any time main is free.  Workers are *)
(* counted, not told apart; what a worker does in detail is ClientWorker.  *)
(* ioc.run() returns when nothing is left that main could wait for; what   *)
(* the forwarder threads post or begin there after that is never run.      *)
(***************************************************************************)
EXTENDS Naturals, SequencesExt

CONSTANTS
  Configs,     \* configurations, each with the bound maxWorkers
  MaxAdders,   \* bound: no visit while more coroutines are adding
  MaxLosses    \* bound: workers lost

(* initial, low and more are worker_count_initial, _low and _more;         *)
(* connects succeed while there are fewer than maxWorkers workers.         *)
ASSUME PoolAssumption ==
  /\ Configs # {} /\ MaxAdders \in Nat /\ MaxLosses \in Nat
  /\ \A c \in Configs :
       /\ DOMAIN c = {"initial", "low", "more", "maxWorkers"}
       /\ {c.initial, c.low, c.more, c.maxWorkers} \subseteq Nat

VARIABLES
  cfg,        \* the configuration, loaded once (config.hpp)
  ctrl,       \* the coroutine controller_socket_send_recv_msgs
  filling,    \* how many workers it has still to add
  adding,     \* coroutines in chk_need_workers_coro, by the workers left to add
  idle,       \* workers that wait to be visited
  visited,    \* workers that confirm a visit
  ending,     \* workers whose coroutines are about to end
  nr,         \* nr_workers_
  ready,      \* the handlers posted on ioc_
  waiting,    \* wq_.q_ holds the forwarder's wait
  vq,         \* how many sockets wq_.vq_ holds
  answering,  \* main has answered the wait of a match and not yet the provide
  fwd,        \* the coroutine forward()
  connecting, \* a handle_socket waits for its connect upstream
  pipes,      \* a pipe runs
  told,       \* the stop of the pipes: "no", "due" or "done"
  late,       \* what was made after the stop it should have met
  closing,    \* closing_ and wq_.closed_
  lost,       \* how many workers were lost, or leaked and are still counted
  failed,     \* a connect of chk_need_workers_coro has failed
  ping,       \* the coroutine ping_actor of the controller
  armed,      \* ping_timer_ is set to an earlier time than time_point::max()
  main        \* ioc.run()

(* How many workers a coroutine may have to add.                           *)
Refills == UNION {1..c.more : c \in Configs}

pool == <<idle, visited, ending, nr>>
queue == <<waiting, vq, answering>>
adders == <<ctrl, filling, adding, failed>>
pinger == <<ping, armed>>
visits == <<connecting, pipes>>
process == <<main, cfg>>
vars == <<pool, queue, adders, ready, fwd, visits, told, late, closing, lost,
          pinger, process>>

Init ==
  /\ cfg \in Configs
  /\ ctrl = "hello" /\ filling = 0 /\ adding = [n \in Refills |-> 0]
  /\ idle = 0 /\ visited = 0 /\ ending = 0 /\ nr = 0
  /\ ready = <<>> /\ waiting = FALSE /\ vq = 0 /\ answering = FALSE
  /\ fwd = "start" /\ connecting = FALSE /\ pipes = FALSE /\ told = "no"
  /\ late = {} /\ closing = FALSE
  /\ lost = 0 /\ failed = FALSE
  /\ ping = "waiting" /\ armed = FALSE /\ main = "running"

MainFree == main = "running" /\ ~answering

(* A handler of main is run: the first that was posted.                    *)
Run(h) == MainFree /\ ready # <<>> /\ Head(ready) = h

(* Somebody holds the forwarder; when the share starts, fwd_ may not have  *)
(* been assigned yet.                                                      *)
HasForwarder ==
  fwd \in {"waiting", "got", "checked", "aborted"} \/ connecting \/ pipes
PostStop == told' \in IF HasForwarder THEN {"due"}
                      ELSE IF fwd = "start" THEN {"due", told} ELSE {told}

(* tcp_share::try_stop, if it was not called before: the share tells its   *)
(* forwarder, closes its queue, which posts the drain, and stops the       *)
(* workers there are.                                                      *)
StopShare ==
  IF closing THEN UNCHANGED <<pool, ready, closing, told>>
  ELSE /\ closing' = TRUE
       /\ PostStop
       /\ ready' = Append(ready, "drain")
       /\ ending' = ending + idle /\ idle' = 0
       /\ UNCHANGED <<visited, nr>>

(* controller::try_stop on an error or SIGINT; cancelling the timer wakes  *)
(* a ping_actor that waits, and it ends.                                   *)
TryStop ==
  /\ StopShare
  /\ ping' = IF ~closing /\ ping = "waiting" THEN "ended" ELSE ping

Sigint ==
  /\ MainFree /\ ~closing
  /\ TryStop
  /\ UNCHANGED <<queue, adders, fwd, visits, late, lost, armed, process>>

-----------------------------------------------------------------------------
(* Adding workers.                                                         *)

Late(what) == late' = IF closing THEN late \cup {what} ELSE late

(* Mutant: a worker does not count itself when it is made.                 *)
AddWorkerUncounted ==
  /\ nr < cfg.maxWorkers
  /\ idle' = idle + 1 /\ Late("worker")
  /\ UNCHANGED <<visited, ending, nr>>

(* add_worker: the connection is there, and with it the worker.  Nothing   *)
(* here looks at closing_.                                                 *)
AddWorker ==
  /\ nr < cfg.maxWorkers
  /\ nr' = nr + 1 /\ idle' = idle + 1 /\ Late("worker")
  /\ UNCHANGED <<visited, ending>>

(* set_ping_timer wakes a ping_actor that waits; it ends after a stop, and *)
(* otherwise waits again.                                                  *)
SetPingTimer ==
  /\ armed' = TRUE
  /\ ping' = IF closing /\ ping = "waiting" THEN "ended" ELSE ping

(* The hello has been answered, and the first workers are to be added.     *)
ServerHello ==
  /\ MainFree /\ ctrl = "hello"
  /\ filling' = cfg.initial
  /\ IF cfg.initial = 0
     THEN ctrl' = "serving" /\ SetPingTimer
     ELSE ctrl' = "filling" /\ UNCHANGED pinger
  /\ UNCHANGED <<pool, queue, adding, failed, ready, fwd, closing, visits,
                 told, late, lost, process>>

CtrlAddsWorker ==
  /\ MainFree /\ ctrl = "filling"
  /\ AddWorker
  /\ filling' = filling - 1
  /\ IF filling = 1
     THEN ctrl' = "serving" /\ SetPingTimer
     ELSE UNCHANGED <<ctrl, pinger>>
  /\ UNCHANGED <<queue, adding, failed, ready, fwd, closing, visits, told,
                 lost, process>>

(* Connecting, the hello, a connect of add_workers or the connection fails.*)
CtrlFails ==
  /\ MainFree /\ ctrl # "ended"
  /\ ctrl' = "ended" /\ filling' = 0
  /\ TryStop
  /\ UNCHANGED <<queue, adding, failed, fwd, visits, late, lost, armed,
                 process>>

(* The server's answer to a ping; it may come before PingSent has run, and *)
(* its read may have completed before a stop.                              *)
Pong ==
  /\ MainFree /\ ctrl = "serving" /\ ~armed
  /\ SetPingTimer
  /\ UNCHANGED <<pool, queue, adders, ready, fwd, closing, visits, told, late,
                 lost, process>>

(* The timer expires.  It is at the maximum while the ping is written.     *)
PingDue ==
  /\ MainFree /\ ping = "waiting" /\ armed
  /\ IF closing THEN ping' = "ended" /\ UNCHANGED armed
                ELSE ping' = "writing" /\ armed' = FALSE
  /\ UNCHANGED <<pool, queue, adders, ready, fwd, closing, visits, told, late,
                 lost, process>>

(* ping_actor waits again, whether or not there was a stop meanwhile.      *)
PingSent ==
  /\ MainFree /\ ping = "writing" /\ ping' = "waiting"
  /\ UNCHANGED <<pool, queue, adders, ready, fwd, closing, visits, told, late,
                 lost, armed, process>>

PingFails ==
  /\ MainFree /\ ping = "writing" /\ ping' = "ended"
  /\ StopShare
  /\ UNCHANGED <<queue, adders, fwd, visits, late, lost, armed, process>>

-----------------------------------------------------------------------------
(* Refills.                                                                *)

RunCheck ==
  /\ Run("check") /\ ready' = Tail(ready)
  /\ adding' = IF ~closing /\ nr < cfg.low /\ cfg.more > 0
               THEN [adding EXCEPT ![cfg.more] = @ + 1] ELSE adding
  /\ UNCHANGED <<pool, queue, ctrl, filling, failed, fwd, closing, visits,
                 told, late, lost, pinger, process>>

(* One of the coroutines that has n workers to add goes on to n - 1.       *)
Advance(n) == adding' = [m \in Refills |->
                IF m = n THEN adding[m] - 1 ELSE IF m + 1 = n THEN adding[m] + 1 ELSE adding[m]]

AdderAddsWorker(n) ==
  /\ MainFree /\ adding[n] > 0
  /\ AddWorker
  /\ Advance(n)
  /\ UNCHANGED <<queue, ctrl, filling, failed, ready, fwd, closing, visits,
                 told, lost, pinger, process>>

(* An exception ends the detached coroutine, and nobody hears of it.       *)
AdderFails(n) ==
  /\ MainFree /\ adding[n] > 0
  /\ adding' = [adding EXCEPT ![n] = @ - 1]
  /\ failed' = TRUE
  /\ UNCHANGED <<pool, queue, ctrl, filling, ready, fwd, closing, visits, told,
                 late, lost, pinger, process>>

-----------------------------------------------------------------------------
(* The workers.                                                            *)

Adders == FoldFunction(LAMBDA a, b : a + b, 0, adding)
(* No coroutine is adding workers.                                         *)
NobodyAdds == \A n \in Refills : adding[n] = 0

Visit ==
  /\ MainFree /\ idle > 0 /\ Adders <= MaxAdders
  /\ idle' = idle - 1 /\ visited' = visited + 1
  /\ UNCHANGED <<ending, nr, queue, adders, ready, fwd, closing, visits, told,
                 late, lost, pinger, process>>

(* The confirmation is sent: wq_.provide(move(s_)) posts its lambda.       *)
Confirm ==
  /\ MainFree /\ visited > 0
  /\ visited' = visited - 1
  /\ ready' = Append(ready, "provide")
  /\ UNCHANGED <<idle, ending, nr, queue, adders, fwd, closing, visits, told,
                 late, lost, pinger, process>>

(* The connection of a worker is lost, or closed by a stop.                *)
Lose ==
  /\ MainFree
  /\ IF closing THEN UNCHANGED lost ELSE lost < MaxLosses /\ lost' = lost + 1
  /\ \/ idle > 0 /\ idle' = idle - 1 /\ UNCHANGED visited
     \/ visited > 0 /\ visited' = visited - 1 /\ UNCHANGED idle
  /\ ending' = ending + 1
  /\ UNCHANGED <<nr, queue, adders, ready, fwd, visits, told, late, closing,
                 pinger, process>>

(* The last coroutine of a worker ends, and ~tcp_share_worker counts it.   *)
(* If ping_actor was left waiting (run link_leak) it is never destroyed.   *)
Destroy ==
  /\ MainFree /\ ending > 0
  /\ ending' = ending - 1 /\ nr' \in {nr - 1, nr}
  /\ UNCHANGED <<idle, visited, queue, adders, ready, fwd, closing, visits,
                 told, late, lost, pinger, process>>

(* The same for a worker whose provide() is answered.                      *)
RunResume ==
  /\ Run("resume") /\ ready' = Tail(ready)
  /\ \/ nr' = nr - 1 /\ UNCHANGED lost
     \/ lost < MaxLosses /\ lost' = lost + 1 /\ UNCHANGED nr
  /\ UNCHANGED <<idle, visited, ending, queue, adders, fwd, visits, told, late,
                 closing, pinger, process>>

-----------------------------------------------------------------------------
(* The share's queue, on main.  A match answers the wait, then the provide.*)

RunProvide ==
  /\ Run("provide")
  /\ \/ /\ closing
        /\ ready' = Append(Tail(ready), "resume")
        /\ UNCHANGED <<queue, fwd>>
     \/ /\ ~closing /\ waiting
        /\ waiting' = FALSE /\ fwd' = "got" /\ answering' = TRUE
        /\ ready' = Tail(ready)
        /\ UNCHANGED vq
     \/ /\ ~closing /\ ~waiting
        /\ vq' = vq + 1
        /\ ready' = Tail(ready)
        /\ UNCHANGED <<waiting, answering, fwd>>
  /\ UNCHANGED <<pool, adders, closing, visits, told, late, lost, pinger,
                 process>>

(* Mutant: a wait on a closed queue is queued.                             *)
RunWaitIgnoresClosed ==
  /\ Run("wait") /\ ready' = Tail(ready)
  /\ vq = 0 /\ waiting' = TRUE
  /\ UNCHANGED <<vq, answering, fwd, pool, adders, closing, visits, told, late,
                 lost, pinger, process>>

RunWait ==
  /\ Run("wait") /\ ready' = Tail(ready)
  /\ \/ /\ closing
        /\ fwd' = "aborted"
        /\ UNCHANGED queue
     \/ /\ ~closing /\ vq > 0
        /\ vq' = vq - 1 /\ fwd' = "got" /\ answering' = TRUE
        /\ UNCHANGED waiting
     \/ /\ ~closing /\ vq = 0
        /\ waiting' = TRUE
        /\ UNCHANGED <<vq, answering, fwd>>
  /\ UNCHANGED <<pool, adders, closing, visits, told, late, lost, pinger,
                 process>>

AnswerProvide ==
  /\ answering /\ answering' = FALSE
  /\ ready' = Append(ready, "resume")
  /\ UNCHANGED <<pool, waiting, vq, adders, fwd, closing, visits, told, late,
                 lost, pinger, process>>

RunDrain ==
  /\ Run("drain")
  /\ ready' = Tail(ready) \o [i \in 1..vq |-> "resume"]
  /\ fwd' = IF waiting THEN "aborted" ELSE fwd
  /\ waiting' = FALSE /\ vq' = 0
  /\ UNCHANGED <<answering, pool, adders, closing, visits, told, late, lost,
                 pinger, process>>

-----------------------------------------------------------------------------
(* The forwarder's thread.                                                 *)

(* Mutant: the pool is called short one worker later.                      *)
FwdCheckLate ==
  /\ fwd = "got" /\ fwd' = "checked"
  /\ ready' = IF nr + 1 < cfg.low THEN Append(ready, "check") ELSE ready
  /\ UNCHANGED <<pool, queue, adders, closing, visits, told, late, lost,
                 pinger, process>>

(* Mutant: the pool is filled up only when it is empty.                    *)
FwdCheckWhenEmpty ==
  /\ fwd = "got" /\ fwd' = "checked"
  /\ ready' = IF nr = 0 THEN Append(ready, "check") ELSE ready
  /\ UNCHANGED <<pool, queue, adders, closing, visits, told, late, lost,
                 pinger, process>>

(* downstream::get_socket: chk_need_workers, when wait() has returned.     *)
FwdCheck ==
  /\ fwd = "got" /\ fwd' = "checked"
  /\ ready' = IF nr < cfg.low THEN Append(ready, "check") ELSE ready
  /\ UNCHANGED <<pool, queue, adders, closing, visits, told, late, lost,
                 pinger, process>>

(* The socket is handed to handle_socket, which begins to connect          *)
(* upstream, and forward() waits for another.                              *)
FwdNext ==
  /\ fwd \in {"start", "checked"} /\ fwd' = "waiting"
  /\ connecting' = (connecting \/ fwd = "checked")
  /\ ready' = Append(ready, "wait")
  /\ UNCHANGED <<pool, queue, adders, closing, pipes, told, late, lost, pinger,
                 process>>

(* rebind_ioc throws, or the wait is aborted: the forwarder stops its      *)
(* pipes if it was not told to before.                                     *)
FwdThrows ==
  /\ fwd \in {"checked", "aborted"} /\ fwd' = "failing"
  /\ IF told = "no" THEN told' = "done" /\ pipes' = FALSE
                    ELSE UNCHANGED <<told, pipes>>
  /\ UNCHANGED <<pool, queue, adders, ready, closing, connecting, late, lost,
                 pinger, process>>

(* forward() is left, and with it run_forwarder: tcp_share::handle_error.  *)
FwdFails ==
  /\ fwd = "failing" /\ fwd' = "ended"
  /\ TryStop
  /\ UNCHANGED <<queue, adders, visits, late, lost, armed, process>>

(* A connect upstream has succeeded, and handle_socket puts its pipe into  *)
(* pipes_ and runs it, whether or not the pipes were stopped before.       *)
Connected ==
  /\ MainFree /\ connecting /\ connecting' \in BOOLEAN
  /\ pipes' = TRUE
  /\ late' = IF told = "done" THEN late \cup {"pipe"} ELSE late
  /\ UNCHANGED <<pool, queue, adders, ready, fwd, closing, told, lost, pinger,
                 process>>

ConnectFails ==
  /\ MainFree /\ connecting /\ connecting' = FALSE
  /\ UNCHANGED <<pool, queue, adders, ready, fwd, closing, pipes, told, late,
                 lost, pinger, process>>

(* Those at the ends of the pipes close them, or do not.                   *)
PipesEnd ==
  /\ pipes /\ pipes' = FALSE
  /\ UNCHANGED <<pool, queue, adders, ready, fwd, closing, connecting, told,
                 late, lost, pinger, process>>

(* forwarder::try_stop, on the strand of pipes_.                           *)
SweepPipes ==
  /\ told = "due" /\ told' = "done"
  /\ pipes' = FALSE /\ late' = late \ {"pipe"}
  /\ UNCHANGED <<pool, queue, adders, ready, fwd, closing, connecting, lost,
                 pinger, process>>

-----------------------------------------------------------------------------
(* ioc.run() returns: no coroutine, no handler and no connect is left on   *)
(* main.  Then run() joins the forwarder's threads, and with them the      *)
(* process ends.                                                           *)
MainEnds ==
  /\ MainFree /\ ctrl = "ended" /\ ping = "ended" /\ NobodyAdds
  /\ nr = 0 /\ ready = <<>> /\ ~connecting
  /\ main' = "ended"
  /\ UNCHANGED <<pool, queue, adders, ready, fwd, closing, visits, told, late,
                 lost, pinger, cfg>>

-----------------------------------------------------------------------------
RunHandler == RunCheck \/ RunResume \/ RunProvide \/ RunWait \/ RunDrain
CtrlConnects == CtrlAddsWorker \/ (ctrl = "filling" /\ CtrlFails)
AdderConnects(n) == AdderAddsWorker(n) \/ AdderFails(n)

Next ==
  \/ Sigint \/ ServerHello \/ CtrlAddsWorker \/ CtrlFails
  \/ Pong \/ PingDue \/ PingSent \/ PingFails
  \/ \E n \in Refills : AdderConnects(n)
  \/ Visit \/ Confirm \/ Lose \/ Destroy
  \/ RunHandler \/ AnswerProvide \/ MainEnds
  \/ FwdCheck \/ FwdNext \/ FwdThrows \/ FwdFails
  \/ Connected \/ ConnectFails \/ PipesEnd \/ SweepPipes

(* Both threads run what is ready; a connect succeeds or fails, the last   *)
(* of those upstream once forward() begins no more; when the controller's  *)
(* socket is closed what it waits for fails.  Nothing makes a server close *)
(* a worker, or the ends of a pipe hang up.                                *)
Fairness ==
  /\ WF_vars(RunHandler) /\ WF_vars(AnswerProvide) /\ WF_vars(MainEnds)
  /\ WF_vars(FwdCheck) /\ WF_vars(FwdNext \/ FwdThrows) /\ WF_vars(FwdFails)
  /\ WF_vars(SweepPipes)
  /\ WF_vars(fwd = "ended" /\ (Connected \/ ConnectFails) /\ ~connecting')
  /\ WF_vars(Confirm) /\ WF_vars(Destroy)
  /\ WF_vars(PingDue) /\ WF_vars(PingSent \/ PingFails)
  /\ WF_vars(CtrlConnects)
  /\ \A n \in Refills : WF_vars(AdderConnects(n))
  /\ WF_vars(ServerHello \/ (ctrl = "hello" /\ CtrlFails))
  /\ WF_vars(closing /\ CtrlFails)

Spec == Init /\ [][Next]_vars /\ Fairness

-----------------------------------------------------------------------------
VisitsTyped ==
  /\ connecting \in BOOLEAN /\ pipes \in BOOLEAN
  /\ told \in {"no", "due", "done"} /\ late \subseteq {"worker", "pipe"}

(* The types of the pool's variables; nr_workers_ counts every worker.     *)
TypeOK ==
  /\ cfg \in Configs
  /\ ctrl \in {"hello", "filling", "serving", "ended"} /\ filling \in 0..cfg.initial
  /\ adding \in [Refills -> Nat]
  /\ idle \in Nat /\ visited \in Nat /\ ending \in Nat /\ nr \in 0..cfg.maxWorkers
  /\ ready \in Seq({"provide", "wait", "resume", "check", "drain"})
  /\ waiting \in BOOLEAN /\ vq \in Nat /\ answering \in BOOLEAN
  /\ fwd \in {"start", "waiting", "got", "checked", "aborted", "failing",
              "ended"}
  /\ VisitsTyped
  /\ closing \in BOOLEAN /\ lost \in 0..MaxLosses /\ failed \in BOOLEAN
  /\ ping \in {"waiting", "writing", "ended"} /\ armed \in BOOLEAN
  /\ main \in {"running", "ended"}

(* Nothing is under way, neither on main nor on the forwarder's thread.    *)
Quiet ==
  /\ ~closing /\ ctrl = "serving" /\ NobodyAdds
  /\ ready = <<>> /\ waiting /\ ~answering
  /\ visited = 0 /\ ending = 0

(* What a pool that is never short is kept at: no check adds more workers  *)
(* than bring it to worker_count_low, and a pool that has never had as     *)
(* many is checked only when one of them is visited.                       *)
Mark == IF cfg.more = 0 THEN 0
        ELSE IF cfg.initial < cfg.low THEN cfg.initial ELSE cfg.low

(* The pool keeps up with the visits.  The forwarder counts workers that   *)
(* main has yet to destroy, but never more than two of them: what is left  *)
(* is short of the mark by at most two, by the lost ones, which nobody     *)
(* replaces before the next visit, and by the leaked ones.                 *)
PoolKeepsUp == Quiet /\ ~failed => idle + lost + 2 >= Mark

(* A share whose workers are all taken gets new ones, unless workers were  *)
(* lost or leaked or a connect failed: the only check there is comes with  *)
(* a visit.  A low-water mark of 3 is needed for that, of the two it may   *)
(* fall behind and the one the check must still find missing.              *)
NeverDry ==
  (ctrl = "serving" /\ idle = 0 /\ cfg.low >= 3 /\ cfg.more > 0 /\ cfg.initial > 0)
    ~> (idle > 0 \/ closing \/ failed \/ lost > 0)

(* The ways in which run() never returns.  Main waits for a worker that is *)
(* counted though its coroutines wait for nothing that comes, for the      *)
(* controller's ping_actor that does the same, or for a worker added after *)
(* the stop; a forwarder thread waits for a queue on which main has ended, *)
(* or for a pipe put into pipes_ after the stop had swept them.            *)
Count(h) == Cardinality({i \in DOMAIN ready : ready[i] = h})
WorkerLeaked ==
  nr > idle + visited + ending + vq + Count("provide") + Count("resume")
       + IF answering THEN 1 ELSE 0
PingLeaked == ctrl = "ended" /\ ping = "waiting" /\ ~armed
WorkerTooLate == "worker" \in late /\ idle > 0
WaitTooLate == main = "ended" /\ fwd = "waiting"
PipeTooLate == "pipe" \in late /\ pipes

Ended ==
  main = "ended" /\ fwd = "ended" /\ ~connecting /\ ~pipes /\ told # "due"

(* After a stop everyone who adds, takes or provides workers comes to an   *)
(* end, the pipes too, and run() returns (zclient.cpp), but for these.     *)
StopEndsProcess ==
  <>closing => <>[](\/ Ended
                    \/ WorkerLeaked \/ PingLeaked \/ WorkerTooLate
                    \/ WaitTooLate \/ PipeTooLate)
=============================================================================
