---------------------------- MODULE Installation ----------------------------
(***************************************************************************)
(* What the callers of install_verified (src/src/updater.rs), of the       *)
(* replace_file of the feeds and of replace_installed_exe                  *)
(* (src/src/self_update.rs) see of the file they install, and what those   *)
(* who use the live file meanwhile have to expect: the content of before,  *)
(* the new one, none, or a part.  However an installation goes, Ok means   *)
(* that the new content is live, and an Err leaves no part behind: the     *)
(* live file is the one of before, the new one (its original could not be  *)
(* removed), or missing (it could not be moved back).  Only a call that is *)
(* killed may leave anything.                                              *)
(***************************************************************************)
CONSTANTS Data,         \* complete file contents
          Absent,       \* there is no such file
          Partial       \* the file was cut off in the middle of a copy

VARIABLES live,         \* the content of the live file
          before,       \* what was live when the call began
          incoming,     \* what the call installs
          phase         \* "rest", "busy", or the result: "ok", "err"

instVars == <<live, before, incoming, phase>>

Init ==
  /\ live \in Data \cup {Absent}
  /\ before = live
  /\ incoming \in Data \cup {Absent}
  /\ phase = "rest"

Call(d) ==
  /\ phase = "rest"
  /\ incoming' = d
  /\ before' = live
  /\ phase' = "busy"
  /\ UNCHANGED live

Work ==
  /\ phase = "busy"
  /\ live' \in {before, incoming, Absent, Partial}
  /\ UNCHANGED <<before, incoming, phase>>

Succeed ==
  /\ phase = "busy"
  /\ live' = incoming
  /\ phase' = "ok"
  /\ UNCHANGED <<before, incoming>>

GiveUp ==
  /\ phase = "busy"
  /\ live' \in {before, incoming, Absent}
  /\ phase' = "err"
  /\ UNCHANGED <<before, incoming>>

(* The call returns its result, or its process is killed. *)
End ==
  /\ phase # "rest"
  /\ phase' = "rest"
  /\ UNCHANGED <<live, before, incoming>>

Next ==
  \/ \E d \in Data : Call(d)
  \/ Work \/ Succeed \/ GiveUp
  \/ End

Spec == Init /\ [][Next]_instVars
=============================================================================
