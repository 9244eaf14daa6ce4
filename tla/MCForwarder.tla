---------------------------- MODULE MCForwarder ----------------------------
(* One visit whose parties send data, one that only comes and goes.        *)
EXTENDS Forwarder

MCVisits == {"v1", "v2"}
MCLoad == [d \in MCVisits \X Sides |-> IF d[1] = "v1" THEN 1 ELSE 0]
=============================================================================
