-------------------------- MODULE MCServerRegistry --------------------------
(* Two clients that disagree about one share id, one of which may connect  *)
(* again while its old controller is still there.                          *)
EXTENDS ServerRegistry

CONSTANTS c1, c2, c3, a, b

Hellos == {[uuid |-> "u", ids |-> <<a>>], [uuid |-> "v", ids |-> <<b, a>>]}

(* One share each: the same disagreement in far fewer states.              *)
LiveHellos == {[uuid |-> "u", ids |-> <<a>>], [uuid |-> "v", ids |-> <<a>>]}

(* Connections are interchangeable; liveness runs take no symmetry.        *)
Symmetry == Permutations(Conns)
=============================================================================
