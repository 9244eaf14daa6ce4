---------------------------- MODULE MCWaitQueue ----------------------------
(* WaitQueue with a few calls of each kind: one more wait() than there are *)
(* values, and two threads inside close().                                 *)
EXTENDS WaitQueue

CONSTANTS w1, w2, w3, p1, p2, k1, k2

WaitCalls == {w1, w2, w3}
ProvideCalls == {p1, p2}
CloseCalls == {k1, k2}
=============================================================================
