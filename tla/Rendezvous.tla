----------------------------- MODULE Rendezvous -----------------------------
(***************************************************************************)
(* What a wait queue promises to the coroutines that call it, with no      *)
(* queue, no executor and no lambda in sight: every call of wait() or      *)
(* provide() is answered at most once; a wait() is answered with the value *)
(* of one provide(), and that provide() is answered in the same instant;   *)
(* after close() no value changes hands and a call may only be aborted.    *)
(*                                                                         *)
(* A provide(r) call stands for its value r, so an element of Provides is  *)
(* both the call and what a wait() call gets from it.                      *)
(***************************************************************************)

CONSTANTS Waits,     \* the calls of wait()
          Provides   \* the calls of provide(r)

Calls == Waits \cup Provides

VARIABLES answer,    \* what each call has been answered with, if anything
          open       \* close() has not been called

vars == <<answer, open>>

Init == /\ answer = [c \in Calls |-> "pending"]
        /\ open = TRUE

Deliver(w, p) ==
  /\ open
  /\ answer[w] = "pending" /\ answer[p] = "pending"
  /\ answer' = [answer EXCEPT ![w] = p, ![p] = "ok"]
  /\ UNCHANGED open

Shut == open' = FALSE /\ UNCHANGED answer

Abort(S) ==
  /\ ~open
  /\ \A c \in S : answer[c] = "pending"
  /\ answer' = [c \in Calls |-> IF c \in S THEN "aborted" ELSE answer[c]]
  /\ UNCHANGED open

Next == \/ \E w \in Waits, p \in Provides : Deliver(w, p)
        \/ Shut
        \/ \E S \in SUBSET Calls : Abort(S)

Spec == Init /\ [][Next]_vars
=============================================================================
