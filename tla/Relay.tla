-------------------------------- MODULE Relay --------------------------------
(***************************************************************************)
(* What a forwarder promises to the two parties of each visit: a direction *)
(* is a stream of which a prefix has been delivered; it is over when all   *)
(* of it was delivered and its source has finished, or the visit failed;   *)
(* and once its source has finished or is lost it is over in the end.      *)
(***************************************************************************)
EXTENDS Naturals

CONSTANTS Visits, Sides

Dirs == Visits \X Sides   \* <<v, s>>: what side s of visit v says

VARIABLES
  sent,       \* how much each direction's source has sent
  given,      \* how much of that was delivered
  fin,        \* directions whose source has finished, or is lost
  paired,     \* visits whose two parties are connected
  failed,     \* visits that lost a party, or were stopped or dropped
  over        \* directions whose end the receiver has been told

vars == <<sent, given, fin, paired, failed, over>>

Init ==
  /\ sent = [d \in Dirs |-> 0] /\ given = [d \in Dirs |-> 0]
  /\ fin = {} /\ paired = {} /\ failed = {} /\ over = {}

Write(d) ==
  /\ d \notin fin
  /\ sent' = [sent EXCEPT ![d] = @ + 1]
  /\ UNCHANGED <<given, fin, paired, failed, over>>

Finish(d) ==
  /\ fin' = fin \cup {d}
  /\ UNCHANGED <<sent, given, paired, failed, over>>

Pair(v) ==
  /\ paired' = paired \cup {v}
  /\ UNCHANGED <<sent, given, fin, failed, over>>

Deliver(d) ==
  /\ d[1] \in paired /\ d \notin over
  /\ \E n \in given[d] + 1 .. sent[d] : given' = [given EXCEPT ![d] = n]
  /\ UNCHANGED <<sent, fin, paired, failed, over>>

End(d) ==
  /\ d[1] \in paired /\ d \notin over
  /\ d \in fin /\ (given[d] = sent[d] \/ d[1] \in failed)
  /\ over' = over \cup {d}
  /\ UNCHANGED <<sent, given, fin, paired, failed>>

(* A party that is lost says no more, and once a visit has failed its      *)
(* directions may end at any point.  A stop fails several visits.          *)
Fail(V) ==
  /\ failed' = failed \cup V
  /\ \E F \in SUBSET (V \X Sides) : fin' = fin \cup F
  /\ \E E \in SUBSET (V \X Sides) : over' = over \cup E
  /\ UNCHANGED <<sent, given, paired>>

Next ==
  \/ \E d \in Dirs : Write(d) \/ Finish(d) \/ Deliver(d) \/ End(d)
  \/ \E v \in Visits : Pair(v)
  \/ \E V \in SUBSET Visits : Fail(V)

(* As long as a visit has not failed all that is sent is delivered.  The   *)
(* end of a direction is told, of a lost one too.                          *)
Fairness == \A d \in Dirs :
  /\ WF_vars(d[1] \notin failed /\ Deliver(d))
  /\ WF_vars(End(d))

Safety == Init /\ [][Next]_vars
Spec == Safety /\ Fairness
=============================================================================
