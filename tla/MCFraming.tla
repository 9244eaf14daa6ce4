------------------------------ MODULE MCFraming ------------------------------
(* Three messages of every length on either side of the buffer and of the  *)
(* limit, and of an unexpected type; lengths of three bits.                *)
EXTENDS Framing

MCMessages == [1..3 -> [len : {0, 1, 2, 3, 4, 5}, known : {TRUE}]
                       \cup [len : {3}, known : {FALSE}]]
=============================================================================
