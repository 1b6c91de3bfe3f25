----------------------------- MODULE ReplaceExe -----------------------------
(***************************************************************************)
(* The replacement of the installed executable by the update helper:       *)
(* replace_installed_exe of src/src/self_update.rs and what apply_update   *)
(* does with its result.  Three paths take part: QuietGuard.exe (target),  *)
(* QuietGuard.exe.new (fresh) and QuietGuard.exe.previous (previous).      *)
(* Every operation may fail, because another process has the file open,    *)
(* and the helper may be killed between any two of them.                   *)
(***************************************************************************)
EXTENDS Naturals

CONSTANTS Images,       \* contents of executables
          Absent,       \* there is no such file
          Cut,          \* a copy that was not completed
          MaxAttempts   \* 30 in the code

ASSUME ReplaceAssumption ==
  /\ Absent \notin Images
  /\ Cut \notin Images
  /\ Absent # Cut
  /\ MaxAttempts \in Nat \ {0}

VARIABLES
  target, fresh, previous,  \* the files
  staged,   \* the downloaded image, which is the helper itself
  pc,       \* what the helper does next
  attempt,  \* the round of the loop
  had,      \* had_target: there was a target in this round
  old,      \* history: the target when the helper began
  stuck     \* history: a rename back to the target has failed

vars == <<target, fresh, previous, staged, pc, attempt, had, old, stuck>>
files == <<target, fresh, previous>>
history == <<old, stuck>>

Steps == {"idle", "copy", "clear", "moveOld", "moveNew", "restore", "retry",
          "ok", "failed"}

TypeOK ==
  /\ target \in Images \cup {Absent}
  /\ fresh \in Images \cup {Absent, Cut}
  /\ previous \in Images \cup {Absent}
  /\ staged \in Images
  /\ pc \in Steps
  /\ attempt \in 1 .. MaxAttempts
  /\ had \in BOOLEAN
  /\ old \in Images
  /\ stuck \in BOOLEAN

Init ==
  /\ target \in Images
  /\ fresh = Absent
  /\ previous = Absent
  /\ staged \in Images
  /\ pc = "idle"
  /\ attempt = 1
  /\ had = FALSE
  /\ old = target
  /\ stuck = FALSE

-----------------------------------------------------------------------------
(* The updater, which is the installed target, has verified and expanded a  *)
(* package and has started the staged executable as the helper.             *)
Begin(v) ==
  /\ pc = "idle"
  /\ target # Absent
  /\ staged' = v
  /\ pc' = "copy"
  /\ attempt' = 1
  /\ old' = target
  /\ UNCHANGED <<target, fresh, previous, had, stuck>>

(* Remove .new and copy the staged image to it; a failure ends the loop.    *)
CopyOk ==
  /\ pc = "copy"
  /\ fresh' = staged
  /\ pc' = "clear"
  /\ UNCHANGED <<target, previous, staged, attempt, had, history>>

(* Mutant: the result of fs::copy is not looked at. *)
CopyFails_Unnoticed ==
  /\ pc = "copy"
  /\ fresh' \in {Absent, Cut, fresh}
  /\ pc' = "clear"
  /\ UNCHANGED <<target, previous, staged, attempt, had, history>>

(* fs::copy fails: nothing, a part or the old .new is there, and Err is returned. *)
CopyFails ==
  /\ pc = "copy"
  /\ fresh' \in {Absent, Cut, fresh}
  /\ pc' = "failed"
  /\ UNCHANGED <<target, previous, staged, attempt, had, history>>

(* Remove .previous, ignoring a failure, and look whether the target exists. *)
ClearPrevious ==
  /\ pc = "clear"
  /\ previous' \in {previous, Absent}
  /\ had' = (target # Absent)
  /\ pc' = IF target # Absent THEN "moveOld" ELSE "moveNew"
  /\ UNCHANGED <<target, fresh, staged, attempt, history>>

(* Mutant: the old executable is removed instead of renamed. *)
MoveOldOk_Removes ==
  /\ pc = "moveOld"
  /\ target' = Absent
  /\ pc' = "moveNew"
  /\ UNCHANGED <<fresh, previous, staged, attempt, had, history>>

(* Rename the target to .previous, replacing one that could not be removed. *)
MoveOldOk ==
  /\ pc = "moveOld"
  /\ previous' = target
  /\ target' = Absent
  /\ pc' = "moveNew"
  /\ UNCHANGED <<fresh, staged, attempt, had, history>>

MoveOldFails ==
  /\ pc = "moveOld"
  /\ pc' = "retry"
  /\ UNCHANGED <<files, staged, attempt, had, history>>

MoveNewOk ==
  /\ pc = "moveNew"
  /\ target' = fresh
  /\ fresh' = Absent
  /\ pc' = "ok"
  /\ UNCHANGED <<previous, staged, attempt, had, history>>

(* Mutant: the old executable is not renamed back. *)
MoveNewFails_NoRestore ==
  /\ pc = "moveNew"
  /\ pc' = "retry"
  /\ UNCHANGED <<files, staged, attempt, had, history>>

(* .new cannot be renamed: the old target is to be renamed back. *)
MoveNewFails ==
  /\ pc = "moveNew"
  /\ pc' = IF had /\ previous # Absent /\ target = Absent THEN "restore" ELSE "retry"
  /\ UNCHANGED <<files, staged, attempt, had, history>>

(* Rename .previous back; whether it worked is not looked at. *)
Restore ==
  /\ pc = "restore"
  /\ target' = previous
  /\ previous' = Absent
  /\ pc' = "retry"
  /\ UNCHANGED <<fresh, staged, attempt, had, history>>

RestoreFails ==
  /\ pc = "restore"
  /\ stuck' = TRUE
  /\ pc' = "retry"
  /\ UNCHANGED <<files, staged, attempt, had, old>>

(* Mutant: rounds are not counted. *)
Retry_Uncounted ==
  /\ pc = "retry"
  /\ fresh' \in {fresh, Absent}
  /\ pc' = "copy"
  /\ UNCHANGED <<target, previous, staged, attempt, had, history>>

(* Remove .new, ignoring a failure, and sleep a second or give up. *)
Retry ==
  /\ pc = "retry"
  /\ fresh' \in {fresh, Absent}
  /\ IF attempt < MaxAttempts
       THEN attempt' = attempt + 1 /\ pc' = "copy"
       ELSE pc' = "failed" /\ UNCHANGED attempt
  /\ UNCHANGED <<target, previous, staged, had, history>>

(* The helper writes its log and ends. *)
Report ==
  /\ pc \in {"ok", "failed"}
  /\ pc' = "idle"
  /\ UNCHANGED <<files, staged, attempt, had, history>>

(* The helper is killed, possibly in the middle of the copy to .new. *)
Kill ==
  /\ pc # "idle"
  /\ pc' = "idle"
  /\ fresh' \in IF pc = "copy" THEN {fresh, Absent, Cut} ELSE {fresh}
  /\ UNCHANGED <<target, previous, staged, attempt, had, history>>

-----------------------------------------------------------------------------
HelperStep ==
  \/ CopyOk \/ CopyFails \/ ClearPrevious
  \/ MoveOldOk \/ MoveOldFails \/ MoveNewOk \/ MoveNewFails
  \/ Restore \/ RestoreFails \/ Retry \/ Report

Next == (\E v \in Images : Begin(v)) \/ HelperStep \/ Kill

Spec == Init /\ [][Next]_vars

(* A running helper goes on: its waits are bounded sleeps. *)
FairSpec == Spec /\ WF_vars(HelperStep)

-----------------------------------------------------------------------------
(* The helper reports the new program file as applied only when the staged  *)
(* image, complete, is the target.                                          *)
SuccessIsStagedImage == pc = "ok" => target = staged

(* Every replacement, whatever fails and whenever it is killed, also after  *)
(* a rename back that failed, is one that Installation allows, and none     *)
(* leaves a part of a program at the installed path: only renames touch it. *)
Phase == CASE pc = "idle" -> "rest" [] pc = "ok" -> "ok" [] pc = "failed" -> "err" [] OTHER -> "busy"

(* Partial is nothing but Absent here, so the promise allows no part.       *)
Promise == INSTANCE Installation WITH
  Data <- Images, Partial <- Absent,
  live <- target, before <- old, incoming <- staged, phase <- Phase

ImplementsInstallation == Promise!Spec

(* README.md:36: the helper "leaves the installed version intact": when it  *)
(* gives up, the target is what it was, in whichever rounds which renames   *)
(* failed, as long as no rename back to the target failed.                  *)
FailureLeavesInstalled == pc = "failed" /\ ~stuck => target = old

(* Neither a kill nor a failing rename leaves the user without the program  *)
(* that was installed, as long as no rename back failed: at every moment    *)
(* the old image is the target or .previous, or the new one is the target.  *)
ProgramAtHand == ~stuck => \/ old \in {target, previous}
                           \/ target = staged

(* A helper never goes on forever: it ends, or it is killed. *)
HelperEnds == pc # "idle" ~> pc = "idle"
=============================================================================
