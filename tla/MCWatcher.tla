------------------------------ MODULE MCWatcher ------------------------------
(* Small instances of Watcher for TLC.  No symmetry: liveness is checked.   *)
EXTENDS Watcher
=============================================================================
