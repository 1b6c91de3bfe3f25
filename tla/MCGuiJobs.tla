------------------------------ MODULE MCGuiJobs ------------------------------
(* Small instances of GuiJobs for TLC.  No symmetry: liveness is checked.   *)
EXTENDS GuiJobs
=============================================================================
