------------------------------ MODULE MCRegWatch ------------------------------
(* Small instances of RegWatch for TLC. *)
EXTENDS RegWatch

(* The configured order; the first one changes without end. *)
MCTargets == <<"Run", "Safer", "Edge">>
MCNoisy == {"Run"}
=============================================================================
