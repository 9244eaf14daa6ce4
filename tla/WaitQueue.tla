------------------------------ MODULE WaitQueue ------------------------------
(***************************************************************************)
(* zrp::waitqueue<R> (include/zrp/waitqueue.hpp): the coroutine queue that *)
(* carries idle workers to visitors (wq_), visited sockets to the          *)
(* forwarder (wq_) and messages to the sending coroutine (to_send_).       *)
(*                                                                         *)
(* wait() and provide() do nothing themselves: each posts a lambda on      *)
(* exec_, the io_context that one thread runs, and suspends its caller.    *)
(* Callers are any number of threads; the lambdas run one at a time, in    *)
(* the order they were posted.  close() runs on its caller's thread and    *)
(* takes two steps there: it sets closed_, then posts a lambda that aborts *)
(* whoever is still queued.                                                *)
(*                                                                         *)
(* closed_ is a plain bool that another thread may write while a lambda    *)
(* reads it; the lambda then sees the old or the new value, and both show  *)
(* here, because setting it and posting the drain are separate steps.      *)
(*                                                                         *)
(* Each element of Waits, Provides and Closers is one call.  A provide(r)  *)
(* call stands for its value r.                                            *)
(***************************************************************************)
EXTENDS Naturals, SequencesExt

CONSTANTS Waits, Provides, Closers

ASSUME CallsAssumption ==
  /\ Waits \cap Provides = {}
  /\ Closers \cap (Waits \cup Provides) = {}
  /\ {"pending", "ok", "aborted"} \cap (Waits \cup Provides \cup Closers) = {}

Calls == Waits \cup Provides

VARIABLES
  q,        \* q_: the handlers of waiting wait() calls, oldest first
  vq,       \* vq_: the values (with their handlers) no one waits for yet
  closed,   \* closed_
  posted,   \* every lambda ever posted on exec_, by the call that posted it
  ran,      \* how many of them exec_ has run
  stage,    \* where each call is
  results   \* what each call's handler has been invoked with, in order

vars == <<q, vq, closed, posted, ran, stage, results>>

(* A handler may be invoked once: completion_handler_t moves h_ out.       *)
Invoke(res, c, r) == [res EXCEPT ![c] = Append(@, r)]

Init ==
  /\ q = <<>> /\ vq = <<>> /\ closed = FALSE
  /\ posted = <<>> /\ ran = 0
  /\ stage = [c \in Calls \cup Closers |-> "idle"]
  /\ results = [c \in Calls |-> <<>>]

-----------------------------------------------------------------------------
(* The callers' side: what happens on the thread that makes the call.      *)

Post(c) == /\ posted' = Append(posted, c)
           /\ stage' = [stage EXCEPT ![c] = "posted"]

CallWait(w) ==
  /\ stage[w] = "idle"
  /\ Post(w)
  /\ UNCHANGED <<q, vq, closed, ran, results>>

CallProvide(p) ==
  /\ stage[p] = "idle"
  /\ Post(p)
  /\ UNCHANGED <<q, vq, closed, ran, results>>

SetClosed(k) ==
  /\ stage[k] = "idle"
  /\ closed' = TRUE
  /\ stage' = [stage EXCEPT ![k] = "closing"]
  /\ UNCHANGED <<q, vq, posted, ran, results>>

PostDrain(k) ==
  /\ stage[k] = "closing"
  /\ Post(k)
  /\ UNCHANGED <<q, vq, closed, ran, results>>

-----------------------------------------------------------------------------
(* The lambdas, run by exec_.                                              *)

NextLambda(c) == ran < Len(posted) /\ posted[ran + 1] = c /\ ran' = ran + 1

(* Mutant: wait() does not look for a value.                               *)
RunWaitQueuesBlindly(w) ==
  /\ NextLambda(w)
  /\ q' = Append(q, w)
  /\ stage' = [stage EXCEPT ![w] = "queued"]
  /\ UNCHANGED <<vq, closed, posted, results>>

(* Mutant: wait() does not look at closed_ before it queues.               *)
RunWaitIgnoresClosed(w) ==
  /\ vq = <<>>
  /\ RunWaitQueuesBlindly(w)

(* Mutant: wait() leaves the value it takes in vq_.                        *)
RunWaitWithoutPop(w) ==
  \/ ~closed /\ vq = <<>> /\ RunWaitQueuesBlindly(w)
  \/ /\ NextLambda(w) /\ ~closed /\ vq # <<>>
     /\ results' = Invoke(Invoke(results, w, Head(vq)), Head(vq), "ok")
     /\ stage' = [stage EXCEPT ![w] = "done", ![Head(vq)] = "done"]
     /\ UNCHANGED <<q, vq, closed, posted>>

RunWait(w) ==
  /\ NextLambda(w)
  /\ \/ /\ closed
        /\ results' = Invoke(results, w, "aborted")
        /\ stage' = [stage EXCEPT ![w] = "done"]
        /\ UNCHANGED <<q, vq>>
     \/ /\ ~closed /\ vq # <<>>
        /\ results' = Invoke(Invoke(results, w, Head(vq)), Head(vq), "ok")
        /\ stage' = [stage EXCEPT ![w] = "done", ![Head(vq)] = "done"]
        /\ vq' = Tail(vq)
        /\ UNCHANGED q
     \/ /\ ~closed /\ vq = <<>>
        /\ q' = Append(q, w)
        /\ stage' = [stage EXCEPT ![w] = "queued"]
        /\ UNCHANGED <<vq, results>>
  /\ UNCHANGED <<closed, posted>>

(* Mutant: provide() resumes a waiter without handing its value over.      *)
RunProvideNothing(p) ==
  /\ NextLambda(p) /\ ~closed /\ q # <<>>
  /\ results' = Invoke(Invoke(results, Head(q), "nothing"), p, "ok")
  /\ stage' = [stage EXCEPT ![p] = "done", ![Head(q)] = "done"]
  /\ q' = Tail(q)
  /\ UNCHANGED <<vq, closed, posted>>

(* What provide() does with q_ when it answers the waiter at position i.   *)
ProvideTo(p, i) ==
  /\ NextLambda(p)
  /\ results' = Invoke(Invoke(results, q[i], p), p, "ok")
  /\ stage' = [stage EXCEPT ![p] = "done", ![q[i]] = "done"]
  /\ q' = RemoveAt(q, i)
  /\ UNCHANGED <<vq, closed, posted>>

(* Mutants: it answers the waiter that came last; it ignores closed_.      *)
RunProvideToLast(p) == ~closed /\ q # <<>> /\ ProvideTo(p, Len(q))
RunProvideIgnoresClosed(p) == q # <<>> /\ ProvideTo(p, 1)

RunProvide(p) ==
  /\ NextLambda(p)
  /\ \/ /\ closed
        /\ results' = Invoke(results, p, "aborted")
        /\ stage' = [stage EXCEPT ![p] = "done"]
        /\ UNCHANGED <<q, vq>>
     \/ /\ ~closed /\ q # <<>>
        /\ results' = Invoke(Invoke(results, Head(q), p), p, "ok")
        /\ stage' = [stage EXCEPT ![p] = "done", ![Head(q)] = "done"]
        /\ q' = Tail(q)
        /\ UNCHANGED vq
     \/ /\ ~closed /\ q = <<>>
        /\ vq' = Append(vq, p)
        /\ stage' = [stage EXCEPT ![p] = "queued"]
        /\ UNCHANGED <<q, results>>
  /\ UNCHANGED <<closed, posted>>

(* Mutant: close() aborts the waiters and does not clear q_.               *)
RunDrainWithoutClear(k) ==
  /\ NextLambda(k)
  /\ results' = [c \in Calls |-> IF c \in ToSet(q) THEN Append(results[c], "aborted")
                                                   ELSE results[c]]
  /\ stage' = [stage EXCEPT ![k] = "done"]
  /\ UNCHANGED <<q, vq, closed, posted>>

(* Mutant: close() drops the values without an answer to their providers.  *)
RunDrainDropsValues(k) ==
  /\ q = <<>> /\ NextLambda(k)
  /\ vq' = <<>>
  /\ stage' = [stage EXCEPT ![k] = "done"]
  /\ UNCHANGED <<q, closed, posted, results>>

RunDrain(k) ==
  /\ NextLambda(k)
  /\ LET left == ToSet(q) \cup ToSet(vq) IN
       /\ results' = [c \in Calls |-> IF c \in left THEN Append(results[c], "aborted")
                                                    ELSE results[c]]
       /\ stage' = [c \in Calls \cup Closers |->
                      IF c \in left \cup {k} THEN "done" ELSE stage[c]]
  /\ q' = <<>> /\ vq' = <<>>
  /\ UNCHANGED <<closed, posted>>

RunLambda == \/ \E w \in Waits : RunWait(w)
             \/ \E p \in Provides : RunProvide(p)
             \/ \E k \in Closers : RunDrain(k)

Next == \/ \E w \in Waits : CallWait(w)
        \/ \E p \in Provides : CallProvide(p)
        \/ \E k \in Closers : SetClosed(k) \/ PostDrain(k)
        \/ RunLambda

(* exec_'s thread keeps running what is posted, and a thread inside        *)
(* close() gets to its second statement.  Nobody has to make a call.       *)
Fairness == /\ WF_vars(RunLambda)
            /\ \A k \in Closers : WF_vars(PostDrain(k))

Spec == Init /\ [][Next]_vars /\ Fairness

-----------------------------------------------------------------------------
Stages == {"idle", "closing", "posted", "queued", "done"}
Answers == Provides \cup {"ok", "aborted"}

(* The types of the variables of waitqueue.                                *)
TypeOK ==
  /\ q \in Seq(Waits) /\ vq \in Seq(Provides)
  /\ closed \in BOOLEAN
  /\ posted \in Seq(Calls \cup Closers)
  /\ ran \in 0..Len(posted)
  /\ stage \in [Calls \cup Closers -> Stages]
  /\ results \in [Calls -> Seq(Answers)]

(* wait() and provide() look at one queue and enqueue on the other: a      *)
(* waiter and a value are never left sitting side by side (a lost wakeup). *)
NoLostWakeup == q = <<>> \/ vq = <<>>

(* A completion handler is invoked at most once, whichever of a match, an  *)
(* abort by a lambda and an abort by close() gets to it first.             *)
OneShot == \A c \in Calls : Len(results[c]) <= 1

(* A provide() is told "ok" exactly when one wait() got its value, and no  *)
(* two wait() calls get the same value.                                    *)
GotFrom(p) == {w \in Waits : \E i \in DOMAIN results[w] : results[w][i] = p}
NoLossNoDup ==
  \A p \in Provides :
    /\ "ok" \in ToSet(results[p]) <=> GotFrom(p) # {}
    /\ \A v, w \in GotFrom(p) : v = w

(* Order of arrival is kept on both sides: a wait() that arrived earlier   *)
(* is answered no later, and with a value that was provided earlier.       *)
NoOvertaking ==
  \A i, j \in 1..ran : i < j /\ posted[i] \in Waits /\ posted[j] \in Waits =>
    \A n \in 1..ran :
      posted[n] \in ToSet(results[posted[j]]) =>
        \E m \in 1..(n - 1) : posted[m] \in ToSet(results[posted[i]])

(* close() sets closed_ before it posts the drain, so nobody can enqueue   *)
(* behind the drain's back: whoever is still queued on a closed queue has  *)
(* a drain ahead of it, posted or about to be.                             *)
NoneLeftBehind ==
  closed /\ (q # <<>> \/ vq # <<>>) =>
    \/ \E i \in (ran + 1)..Len(posted) : posted[i] \in Closers
    \/ \E k \in Closers : stage[k] = "closing"

(* Once closed_ is set, every call that was made is answered: no coroutine *)
(* stays suspended on a closed queue.                                      *)
ClosedAnswersAll ==
  \A c \in Calls : (closed /\ stage[c] # "idle") ~> (results[c] # <<>>)

(* The queue implements the rendezvous it promises: a call's answer is what*)
(* its handler was invoked with first.                                     *)
Answer == [c \in Calls |-> IF results[c] = <<>> THEN "pending" ELSE results[c][1]]
RV == INSTANCE Rendezvous WITH answer <- Answer, open <- ~closed
Rendezvouses == RV!Spec
=============================================================================
