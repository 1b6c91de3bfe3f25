---------------------------- MODULE MCDbUpdate ----------------------------
(* Small instances of DbUpdate for TLC. *)
EXTENDS DbUpdate
MCPublic == <<"kadhosts">>
MCTwoPublic == <<"kadhosts", "stevenblack">>
MCInterval == [s \in Sources |-> 1]
MCLongInterval == [s \in Sources |-> IF s \in Keyed THEN 1 ELSE 2]
===========================================================================
