---------------------------- MODULE MCReplaceExe ----------------------------
(* Small instances of ReplaceExe for TLC.  No symmetry: liveness is checked. *)
EXTENDS ReplaceExe
=============================================================================
