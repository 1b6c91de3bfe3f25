------------------------------ MODULE Baseline ------------------------------
(***************************************************************************)
(* The buttons 기준 저장 and 기준 비교 of src/src/baseline.rs: save what    *)
(* the scanners report as a file, with a copy of the one before, and       *)
(* compare what they report later with it.                                 *)
(*                                                                         *)
(* One scanner is followed, whichever it is: the file is the union of what *)
(* they all report, and no scanner looks at another's settings.  The       *)
(* window does one such job at a time (GuiJobs); it may be closed or       *)
(* killed at any moment, and the settings of the machine may change.       *)
(***************************************************************************)
EXTENDS ScanReports

CONSTANTS
  Machines,   \* what Windows may answer to the followed scanner
  MaxHarms    \* bound of the failures and kills during a save

(* An answer is a text of entries; a scanner may get no answer at all. *)
ASSUME BaselineAssumption ==
  Machines \subseteq Seq(TextEntries) /\ <<>> \in Machines /\ MaxHarms \in Nat

VARIABLES
  scanner,    \* the one that is followed
  machine,    \* what Windows answers to it now
  file,       \* baseline.txt
  backup,     \* state of baseline.prev.txt
  pc,         \* of the worker
  text,       \* what is saved, and of which machine
  told,       \* the answer of a comparison and what it was about, until the next step
  saved,      \* history: a save was completed
  harms       \* history: failures and kills during a save

baseVars == <<scanner, machine, file, backup, pc, text, told, saved, harms>>

(* normalize: the titles and what changes by itself are left out. *)
Normalize(report) == {line \in report : line[1] # "db"}

ReportsOf == [s \in Machines |-> Reports(s)]

CollectScanLines == Normalize(ReportsOf[machine][scanner])

FileStates == {"none", "whole", "cut", "garbled", "newer"}

BaseTypeOK ==
  /\ scanner \in Scanners
  /\ machine \in Machines
  /\ file.state \in FileStates
  /\ file.of \in Machines
  /\ file.lines \subseteq Normalize(ReportsOf[file.of][scanner])
  /\ backup \in FileStates
  /\ pc \in {"idle", "backup", "write"}
  /\ text.of \in Machines
  /\ told.answer \in {"nothing", "same", "changed", "missing", "newer"}
  /\ saved \in BOOLEAN
  /\ harms \in 0 .. MaxHarms

NoText == [lines |-> {}, of |-> <<>>]
Nothing == [answer |-> "nothing", state |-> "none", then |-> <<>>, now |-> <<>>]

BaseInit ==
  /\ scanner \in Scanners
  /\ machine \in Machines
  /\ file \in {[state |-> state, lines |-> {}, of |-> <<>>] : state \in {"none", "newer"}}
  /\ backup = "none"
  /\ pc = "idle"
  /\ text = NoText
  /\ told = Nothing
  /\ saved = FALSE
  /\ harms = 0

-----------------------------------------------------------------------------

(* The machine is only read while the worker is idle: a change during a    *)
(* save is the same as one after it.                                       *)
MachineChanges ==
  /\ pc = "idle"
  /\ machine' \in Machines
  /\ told' = Nothing
  /\ UNCHANGED <<scanner, file, backup, pc, text, saved, harms>>

Save ==
  /\ pc = "idle"
  /\ text' = [lines |-> CollectScanLines, of |-> machine]
  /\ pc' = "backup"
  /\ told' = Nothing
  /\ UNCHANGED <<scanner, machine, file, backup, saved, harms>>

(* Mutant: the copy is made of the new file. *)
SaveBackup_Later ==
  /\ pc = "backup"
  /\ pc' = "write"
  /\ UNCHANGED <<scanner, machine, file, backup, text, told, saved, harms>>

SaveBackup ==
  /\ pc = "backup"
  /\ backup' = IF file.state = "none" THEN backup ELSE file.state
  /\ pc' = "write"
  /\ UNCHANGED <<scanner, machine, file, text, told, saved, harms>>

(* The copy fails or is cut off; if the window lives, it goes on all the   *)
(* same.                                                                   *)
SaveBackupFails ==
  /\ pc = "backup"
  /\ file.state # "none"
  /\ harms < MaxHarms
  /\ harms' = harms + 1
  /\ backup' \in {backup, "cut", "garbled"}
  /\ pc' \in {"idle", "write"}
  /\ text' = IF pc' = "idle" THEN NoText ELSE text
  /\ UNCHANGED <<scanner, machine, file, told, saved>>

SaveWrite ==
  /\ pc = "write"
  /\ file' = [state |-> "whole", lines |-> text.lines, of |-> text.of]
  /\ saved' = TRUE
  /\ pc' = "idle"
  /\ UNCHANGED <<scanner, machine, backup, told, harms>>
  /\ text' = NoText

(* Bound: nothing is left of the lines, or all but the last line break. *)
CutOff(lines) == {{}, lines}

(* fs::write empties the file first: it ends anywhere, in the middle of a  *)
(* character at worst, when the writing fails or the window is killed.     *)
SaveWriteFails ==
  /\ pc = "write"
  /\ harms < MaxHarms
  /\ harms' = harms + 1
  /\ file' \in {[state |-> "garbled", lines |-> {}, of |-> <<>>]} \cup
              {[state |-> "cut", lines |-> some, of |-> text.of] : some \in CutOff(text.lines)}
  /\ pc' = "idle"
  /\ UNCHANGED <<scanner, machine, backup, told, saved>>
  /\ text' = NoText

(* The folder cannot be made, or the window is killed before the copy. *)
SaveStops ==
  /\ pc = "backup"
  /\ harms < MaxHarms
  /\ harms' = harms + 1
  /\ pc' = "idle"
  /\ UNCHANGED <<scanner, machine, file, backup, told, saved>>
  /\ text' = NoText

Answers(answer) ==
  told' = [answer |-> answer, state |-> file.state, then |-> file.of, now |-> machine]

(* Mutant: what has disappeared is not looked at. *)
Compare_OnlyAdded ==
  /\ pc = "idle"
  /\ IF file.state \in {"none", "garbled"} THEN Answers("missing")
     ELSE IF file.state = "newer" THEN Answers("newer")
     ELSE IF CollectScanLines \subseteq file.lines THEN Answers("same")
     ELSE Answers("changed")
  /\ UNCHANGED <<scanner, machine, file, backup, pc, text, saved, harms>>

Compare ==
  /\ pc = "idle"
  /\ IF file.state \in {"none", "garbled"} THEN Answers("missing")
     ELSE IF file.state = "newer" THEN Answers("newer")
     ELSE IF CollectScanLines = file.lines THEN Answers("same")
     ELSE Answers("changed")
  /\ UNCHANGED <<scanner, machine, file, backup, pc, text, saved, harms>>

BaseNext ==
  \/ MachineChanges
  \/ Save
  \/ SaveBackup
  \/ SaveBackupFails
  \/ SaveWrite
  \/ SaveWriteFails
  \/ SaveStops
  \/ Compare

-----------------------------------------------------------------------------
(* What is checked; WindowActions names these for its run. *)

(* What the messages of a scanner are about: the entries it looks at, and  *)
(* those that only some scanners count or for which they give up.          *)
Concerns(s) ==
  Select(s, OnOnes
            \cup (IF scanner \in {"browser_extensions", "ie_search_and_storage"}
                    THEN MarkedOnes ELSE {})
            \cup (IF scanner = "firefox_extensions" THEN MarkedOnes \cup MoreOnes ELSE {})
            \cup (IF scanner \in {"hosts", "browser_notifications", "notification_origins",
                                  "extension_metadata"}
                    THEN FailedOnes ELSE {}))

ListsAll ==
  {"hosts", "wmi_persistence", "browser_policies", "numeric_system_files", "notification_origins",
   "hidden_executables", "machine_com_targets", "appcert_dlls"}
OnlyCounts ==
  {"dns", "browser_extensions", "browser_notifications", "proxy", "winhttp_proxy"}
GivesUp == {"hosts", "notification_origins", "extension_metadata"}

(* What the user relies on seeing in the list of a scanner. *)
Findings(s) ==
  CASE scanner \in ListsAll -> On(s)
    [] scanner = "suspicious_file_signatures" -> Others(On(s))
    [] scanner = "ie_search_and_storage" -> Bad(Plain(s))
    [] OTHER -> Bad(s)
Shown(s) == {IF scanner = "databases" THEN s[i].also ELSE s[i].shown : i \in DOMAIN s}

(* How many findings a list has room for; the other lists have no end. *)
ListRoom == [
  hosts |-> Cap[4], bits_jobs |-> Cap[5], winsock |-> Cap[5], wmi_persistence |-> Cap[5],
  environment_and_logon |-> Cap[8], uninstall_entries |-> Cap[8], browser_shortcuts |-> Cap[8],
  ie_elevation_policy |-> Cap[6], user_com_persistence |-> Cap[30],
  hidden_executables |-> Cap[20], numeric_system_files |-> Cap[30],
  firefox_extensions |-> Cap[20], notification_origins |-> Cap[30],
  machine_com_targets |-> Cap[30], app_paths |-> Cap[25], firewall_rules |-> Cap[25],
  safer_policy |-> Cap[20], safeboot_overrides |-> Cap[20], mozilla_plugins |-> Cap[20],
  ipsec_policy |-> Cap[8], appcert_dlls |-> Cap[15]]
Fits(s) ==
  /\ scanner = "suspicious_file_signatures" => Len(On(s)) <= Cap[12]
  /\ scanner = "execution_restrictions" =>
       \A key \in Groups(Bad(s)) : Len(Of(Bad(s), key)) <= Cap[6]
  /\ scanner = "databases" => \A place \in Groups(Bad(s)) : Len(Of(Bad(s), place)) <= Room(place)
  /\ scanner \in DOMAIN ListRoom => Len(Findings(s)) <= ListRoom[scanner]

(* The scanner had what it needed to look. *)
Able(s) == scanner \in GivesUp => Failed(s) = <<>>

(* A comparison with a complete file says that something has changed only  *)
(* if something that concerns the scanner has.                             *)
NoFalseAlarm ==
  told.answer = "changed" /\ told.state = "whole" =>
    \/ Concerns(told.then) # Concerns(told.now)
    \/ (told.then = <<>>) # (told.now = <<>>)

(* A comparison with a complete file says that nothing has changed only if *)
(* the findings of both times look alike, unless the list of this scanner  *)
(* was too short for them or it could not look.                            *)
NoMissedFinding ==
  /\ told.answer = "same" /\ told.state = "whole"
  /\ scanner \notin OnlyCounts
  /\ Fits(told.then) /\ Fits(told.now) /\ Able(told.then) /\ Able(told.now)
  => Shown(Findings(told.then)) = Shown(Findings(told.now))

(* Once a baseline was saved, a failure or kill during a later save leaves *)
(* a complete one on the disk, the new or the old.                         *)
SnapshotKept ==
  pc = "idle" /\ saved /\ harms <= 1 => file.state = "whole" \/ backup = "whole"
=============================================================================
