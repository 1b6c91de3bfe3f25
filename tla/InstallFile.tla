----------------------------- MODULE InstallFile -----------------------------
(***************************************************************************)
(* How a rule file or a feed index is put in the place of the live one:    *)
(* install_verified of src/src/updater.rs and the four copies of           *)
(* replace_file (intel, keyed_intel, regional_intel, data_update), which   *)
(* differ in the extension of the backup only, with the move_file they     *)
(* all use.                                                                *)
(*                                                                         *)
(* Three files take part: the downloaded or built "source", the "live"     *)
(* file that lookups read and its "backup".  A move is a rename, and when  *)
(* that fails a copy followed by the removal of the original; every file   *)
(* operation may fail, and the process may be killed between two of them   *)
(* and in the middle of a copy (the window is closed, the scheduled task   *)
(* is ended, `panic = "abort"`).                                           *)
(***************************************************************************)
EXTENDS Naturals

CONSTANTS Data,         \* complete file contents
          Absent,       \* there is no such file
          Partial,      \* the file was cut off in the middle of a copy
          MaxKills      \* how often the process is killed (a bound)

ASSUME InstallAssumption ==
  /\ Absent \notin Data
  /\ Partial \notin Data
  /\ Absent # Partial
  /\ MaxKills \in Nat

VARIABLES
  fs,       \* the content of each file
  pc,       \* the file operation that is next
  stage,    \* the move that is under way
  had,      \* had_destination: there was a live file
  kills,    \* how often the process was killed
  rollbackFailed,   \* history: a rollback has not restored the live file
  new,      \* history: what is being installed
  old,      \* history: what was live when the installation began
  good      \* history: the last complete content that was live

vars == <<fs, pc, stage, had, kills, rollbackFailed, new, old, good>>

Files == {"source", "live", "backup"}
Content == Data \cup {Absent, Partial}

(* "clear" removes an old backup; "rename", "copy" and "drop" are the steps *)
(* of move_file; "failed" and "done" have a result to return.               *)
Steps == {"idle", "clear", "rename", "copy", "drop", "failed", "done"}
Stages == {"save", "install", "rollback"}

(* The two arguments of move_file at each stage. *)
From == [save |-> "live", install |-> "source", rollback |-> "backup"]
To   == [save |-> "backup", install |-> "live", rollback |-> "live"]

TypeOK ==
  /\ fs \in [Files -> Content]
  /\ pc \in Steps
  /\ stage \in Stages
  /\ had \in BOOLEAN
  /\ kills \in 0 .. MaxKills
  /\ rollbackFailed \in BOOLEAN
  /\ new \in Content
  /\ old \in Content
  /\ good \in Data \cup {Absent}

Init ==
  /\ fs \in {[f \in Files |-> Absent]} \cup
            {[source |-> Absent, live |-> d, backup |-> Absent] : d \in Data}
  /\ pc = "idle"
  /\ stage = "save"
  /\ had = FALSE
  /\ kills = 0
  /\ rollbackFailed = FALSE
  /\ new = Absent
  /\ old = fs["live"]
  /\ good = fs["live"]

-----------------------------------------------------------------------------
(* The caller has downloaded and verified, or built, the complete source.   *)
Begin(d) ==
  /\ pc = "idle"
  /\ pc' = "clear"
  /\ fs' = [fs EXCEPT !["source"] = d]
  /\ new' = d
  /\ old' = fs["live"]
  /\ UNCHANGED <<stage, had, kills, rollbackFailed, good>>

(* Remove the backup of the last time, ignoring a failure, and look whether *)
(* there is a live file to save.                                            *)
ClearBackup ==
  /\ pc = "clear"
  /\ fs' \in {fs, [fs EXCEPT !["backup"] = Absent]}
  /\ had' = (fs["live"] # Absent)
  /\ stage' = IF had' THEN "save" ELSE "install"
  /\ pc' = "rename"
  /\ UNCHANGED <<kills, rollbackFailed, new, old, good>>

(* What follows when the move of this stage has succeeded. *)
MoveOk ==
  \/ /\ stage = "save"
     /\ stage' = "install"
     /\ pc' = "rename"
  \/ /\ stage = "install"
     /\ pc' = "done"
     /\ UNCHANGED stage
  \/ /\ stage = "rollback"
     /\ pc' = "failed"
     /\ UNCHANGED stage

(* Mutant: a failed installation is not rolled back. *)
MoveFailed_NoRollback ==
  /\ pc' = "failed"
  /\ UNCHANGED <<stage, rollbackFailed>>

(* What follows when it has failed, with the files as the move left them:   *)
(* only a failed installation is rolled back, only if there was a live      *)
(* file, there is a backup and there is no live file now.                   *)
MoveFailed ==
  LET rollsBack == /\ stage = "install"
                   /\ had
                   /\ fs'["backup"] # Absent
                   /\ fs'["live"] = Absent
  IN /\ stage' = IF rollsBack THEN "rollback" ELSE stage
     /\ pc' = IF rollsBack THEN "rename" ELSE "failed"
     /\ rollbackFailed' = IF stage = "rollback" /\ fs'["live"] \notin Data
                            THEN TRUE ELSE rollbackFailed

(* The content that is live when a move to the live file is complete. *)
NoteGood ==
  good' = IF To[stage] = "live" /\ fs'["live"] \in Data THEN fs'["live"] ELSE good

(* fs::rename replaces the target in one step. *)
RenameOk ==
  /\ pc = "rename"
  /\ fs' = [fs EXCEPT ![To[stage]] = fs[From[stage]], ![From[stage]] = Absent]
  /\ MoveOk
  /\ NoteGood
  /\ UNCHANGED <<had, kills, rollbackFailed, new, old>>

(* Mutant: the original is removed before it is copied. *)
StartCopy_RemovesFirst ==
  /\ pc = "rename"
  /\ fs' = [fs EXCEPT ![To[stage]] = Partial, ![From[stage]] = Absent]
  /\ pc' = "copy"
  /\ UNCHANGED <<stage, had, kills, rollbackFailed, new, old, good>>

(* The rename fails and fs::copy begins to overwrite the target, or cannot  *)
(* even open it.                                                            *)
StartCopy ==
  /\ pc = "rename"
  /\ fs' = [fs EXCEPT ![To[stage]] = Partial]
  /\ pc' = "copy"
  /\ UNCHANGED <<stage, had, kills, rollbackFailed, new, old, good>>

CopyRefused ==
  /\ pc = "rename"
  /\ UNCHANGED fs
  /\ MoveFailed
  /\ UNCHANGED <<had, kills, new, old, good>>

FinishCopy ==
  /\ pc = "copy"
  /\ fs' = [fs EXCEPT ![To[stage]] = fs[From[stage]]]
  /\ pc' = "drop"
  /\ NoteGood
  /\ UNCHANGED <<stage, had, kills, rollbackFailed, new, old>>

(* Mutant: move_file does not look at the result of the copy. *)
CopyFails_Unnoticed ==
  /\ pc = "copy"
  /\ fs' = [fs EXCEPT ![To[stage]] = Absent]
  /\ pc' = "drop"
  /\ UNCHANGED <<stage, had, kills, rollbackFailed, new, old, good>>

(* Mutant: the part that was written is left. *)
CopyFails_LeavesPart ==
  /\ pc = "copy"
  /\ UNCHANGED fs
  /\ MoveFailed
  /\ UNCHANGED <<had, kills, new, old, good>>

(* A copy that fails half-way removes what it has written (CopyFileExW). *)
CopyFails ==
  /\ pc = "copy"
  /\ fs' = [fs EXCEPT ![To[stage]] = Absent]
  /\ MoveFailed
  /\ UNCHANGED <<had, kills, new, old, good>>

(* The copy is complete; fs::remove_file(source). *)
DropOk ==
  /\ pc = "drop"
  /\ fs' = [fs EXCEPT ![From[stage]] = Absent]
  /\ MoveOk
  /\ UNCHANGED <<had, kills, rollbackFailed, new, old, good>>

(* The original cannot be removed: the move has failed, its target is complete. *)
DropFails ==
  /\ pc = "drop"
  /\ UNCHANGED fs
  /\ MoveFailed
  /\ UNCHANGED <<had, kills, new, old, good>>

(* The caller gets Err and removes its download (updater.rs) or leaves it   *)
(* to be overwritten by the next one (the feeds).                           *)
ReturnErr ==
  /\ pc = "failed"
  /\ fs' \in {fs, [fs EXCEPT !["source"] = Absent]}
  /\ pc' = "idle"
  /\ UNCHANGED <<stage, had, kills, rollbackFailed, new, old, good>>

ReturnOk ==
  /\ pc = "done"
  /\ pc' = "idle"
  /\ UNCHANGED <<fs, stage, had, kills, rollbackFailed, new, old, good>>

(* The files stay as they are; nothing looks at them before the next update. *)
Kill ==
  /\ pc # "idle"
  /\ kills < MaxKills
  /\ kills' = kills + 1
  /\ pc' = "idle"
  /\ UNCHANGED <<fs, stage, had, rollbackFailed, new, old, good>>

-----------------------------------------------------------------------------
Next ==
  \/ \E d \in Data : Begin(d)
  \/ ClearBackup
  \/ RenameOk \/ StartCopy \/ CopyRefused \/ FinishCopy \/ CopyFails
  \/ DropOk \/ DropFails
  \/ ReturnErr \/ ReturnOk
  \/ Kill

Spec == Init /\ [][Next]_vars

-----------------------------------------------------------------------------
(* Ok(()) means that the complete new content is live, whichever way the    *)
(* move went and whatever earlier crashes left behind.                      *)
SuccessInstalls == pc = "done" => fs["live"] = new

(* A kill, or a rollback that could not restore the live file. *)
Harmed == kills > 0 \/ rollbackFailed

(* Until then the last good content is never lost: at every moment it is    *)
(* live or in the backup, whatever other operations fail (README.md:72).    *)
GoodContentKept ==
  ~Harmed /\ good # Absent => good \in {fs["live"], fs["backup"]}

(* Until then the live file is the last good one between two updates,       *)
(* however the update before ended: neither missing nor half written.       *)
LiveIsGoodAtRest == ~Harmed /\ pc = "idle" => fs["live"] = good

(* Together: no failure loses the last good content, or leaves an update    *)
(* with anything but it in place.                                           *)
GoodContentSafe == GoodContentKept /\ LiveIsGoodAtRest

(* The first kill or failed rollback does not lose the good content either: *)
(* it is still live or in the backup, at whatever point it comes.           *)
FirstHarmKeepsGood ==
  [][~Harmed /\ Harmed' /\ good # Absent =>
       good \in {fs'["live"], fs'["backup"]}]_vars

(* Every installation, whatever fails and whenever it is killed, also after *)
(* earlier kills, is one that Installation allows: Ok with the new content  *)
(* live, Err with what was live before, the new content or none.            *)
Phase == CASE pc = "idle" -> "rest" [] pc = "done" -> "ok" [] pc = "failed" -> "err" [] OTHER -> "busy"

Promise == INSTANCE Installation WITH
  live <- fs["live"], before <- old, incoming <- new, phase <- Phase

ImplementsInstallation == Promise!Spec
=============================================================================
