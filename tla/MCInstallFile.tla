---------------------------- MODULE MCInstallFile ----------------------------
(* Small instances of InstallFile for TLC. *)
EXTENDS InstallFile, TLC

(* Contents are only compared with each other. *)
Symmetry == Permutations(Data)
=============================================================================
