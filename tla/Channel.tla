------------------------------- MODULE Channel -------------------------------
(***************************************************************************)
(* What recv_msg promises to its caller: the peer's messages, each once    *)
(* and in order, up to the first that is refused or to the connection's    *)
(* end.                                                                    *)
(***************************************************************************)
EXTENDS Naturals, Sequences

CONSTANT Good(_)   \* which messages are accepted

VARIABLES
  msgs,       \* the messages the peer sends, in order
  received,   \* the ones the caller has got, by number, in order
  whole,      \* how many of them have been sent in full
  end         \* "no", "refused" or "lost"

vars == <<msgs, received, whole, end>>

Init == received = <<>> /\ whole = 0 /\ end = "no" /\ msgs \in Seq([len : Nat, known : BOOLEAN])

Sent ==
  /\ \E n \in whole + 1 .. Len(msgs) : whole' = n
  /\ UNCHANGED <<msgs, received, end>>

Receive ==
  /\ end = "no" /\ Len(received) < whole /\ Good(msgs[Len(received) + 1])
  /\ received' = Append(received, Len(received) + 1)
  /\ UNCHANGED <<msgs, whole, end>>

(* A message may be refused before all of it is there.                     *)
Refuse ==
  /\ end = "no" /\ Len(received) < Len(msgs) /\ ~Good(msgs[Len(received) + 1])
  /\ end' = "refused"
  /\ UNCHANGED <<msgs, received, whole>>

Lose ==
  /\ end = "no" /\ end' = "lost"
  /\ UNCHANGED <<msgs, received, whole>>

Next == Sent \/ Receive \/ Refuse \/ Lose

Safety == Init /\ [][Next]_vars

(* What has been sent in full is received, or refused.                     *)
Spec == Safety /\ WF_vars(Receive \/ (Len(received) < whole /\ Refuse))
=============================================================================
