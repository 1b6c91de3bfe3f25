---------------------------- MODULE RulesUpdate ----------------------------
(***************************************************************************)
(* update_rules of src/src/updater.rs: the manifest (version.json) and the *)
(* rules (heuristics.conf) are downloaded one after the other, the rules   *)
(* are checked against the SHA-256 in the manifest, and the two files are  *)
(* installed one after the other.  A scan reads the rules at any time with *)
(* Rules::load of src/src/rules.rs.                                        *)
(*                                                                         *)
(* Releases are numbered as they are published.  A hash stands for the     *)
(* release whose rules it is the hash of, and Version maps a release to    *)
(* the rules_version its manifest names.  The server may still answer with *)
(* an older release.  Only one process updates at a time (DbUpdate), it    *)
(* may be killed at any point, and a file may be damaged from outside.     *)
(***************************************************************************)
EXTENDS Integers

CONSTANTS
  MaxRelease,   \* bound of the releases
  Version       \* rules_version of each release

Releases == 1 .. MaxRelease
None == 0           \* no such file
Damaged == -1       \* content that is the content of no release

ASSUME RulesUpdateAssumption ==
  /\ MaxRelease \in Nat \ {0}
  /\ Version \in [Releases -> Nat]

VARIABLES
  remote,     \* the release on the server
  pc,         \* what update_rules does next
  got,        \* release of the downloaded manifest
  body,       \* content of the downloaded rules
  rules,      \* content of the local heuristics.conf
  manifest,   \* release of the local version.json
  result,     \* how the last call ended
  packaged,   \* rules of the program's own directory
  loaded      \* what the last scan read

local == <<rules, manifest>>
vars == <<remote, pc, got, body, local, result, packaged, loaded>>

Contents == Releases \cup {None, Damaged}

TypeOK ==
  /\ remote \in Releases
  /\ pc \in {"idle", "manifest", "rules", "check", "install rules", "install manifest"}
  /\ got \in Releases \cup {None}
  /\ body \in Contents
  /\ pc \notin {"idle", "manifest"} => got # None
  /\ pc \in {"check", "install rules", "install manifest"} => body # None
  /\ rules \in Contents
  /\ manifest \in Contents
  /\ result \in {"none", "error", "blocked", "latest", "done"}
  /\ packaged \in {None, 1}
  /\ loaded \in Contents

Init ==
  /\ remote = 1
  /\ pc = "idle"
  /\ got = None
  /\ body = None
  /\ rules = None
  /\ manifest = None
  /\ result = "none"
  /\ packaged \in {None, 1}
  /\ loaded = None

-----------------------------------------------------------------------------
(* The steps of update_rules. *)

(* cleanup removes both downloads on every way out. *)
Return(r) ==
  /\ pc' = "idle"
  /\ got' = None
  /\ body' = None
  /\ result' = r

Call ==
  /\ pc = "idle"
  /\ pc' = "manifest"
  /\ UNCHANGED <<remote, got, body, local, result, packaged, loaded>>

(* A manifest of an unknown schema, for a newer program or without a hash  *)
(* is blocked before anything else is looked at.                           *)
GetManifest ==
  /\ pc = "manifest"
  /\ got' \in 1 .. remote
  /\ pc' = "rules"
  /\ UNCHANGED <<remote, body, local, result, packaged, loaded>>

NoManifest ==
  /\ pc = "manifest"
  /\ \E r \in {"error", "blocked"} : Return(r)
  /\ UNCHANGED <<remote, local, packaged, loaded>>

SameVersion == manifest \in Releases /\ Version[manifest] = Version[got]

(* Mutant: an equal version is taken for equal rules. *)
UpToDate_ByVersion == rules # None /\ SameVersion

(* The version is equal and the local rules still have the hash. *)
UpToDate == rules # None /\ SameVersion /\ rules = got

StopUpToDate ==
  /\ pc = "rules"
  /\ UpToDate
  /\ Return("latest")
  /\ UNCHANGED <<remote, local, packaged, loaded>>

(* Also when certutil has failed to hash the local rules. *)
GetRules ==
  /\ pc = "rules"
  /\ body' \in (1 .. remote) \cup {Damaged}
  /\ pc' = "check"
  /\ UNCHANGED <<remote, got, local, result, packaged, loaded>>

NoRules ==
  /\ pc = "rules"
  /\ Return("error")
  /\ UNCHANGED <<remote, local, packaged, loaded>>

(* Mutant: the hash of the download is not compared. *)
Verified_Not == TRUE

Verified == body = got

Verify ==
  /\ pc = "check"
  /\ Verified
  /\ pc' = "install rules"
  /\ UNCHANGED <<remote, got, body, local, result, packaged, loaded>>

Block ==
  /\ pc = "check"
  /\ ~Verified
  /\ Return("blocked")
  /\ UNCHANGED <<remote, local, packaged, loaded>>

(* Mutant: the other of the two downloads is moved to the place of the rules. *)
InstallRules_WrongFile ==
  /\ pc = "install rules"
  /\ rules' = Damaged
  /\ pc' = "install manifest"
  /\ UNCHANGED <<remote, got, body, manifest, result, packaged, loaded>>

InstallRules ==
  /\ pc = "install rules"
  /\ rules' = body
  /\ pc' = "install manifest"
  /\ UNCHANGED <<remote, got, body, manifest, result, packaged, loaded>>

(* install_verified returns Err: rolled back, not rolled back, with a part *)
(* of the new file or with all of it in place (InstallFile).               *)
RulesNotInstalled ==
  /\ pc = "install rules"
  /\ rules' \in {rules, None, Damaged, body}
  /\ Return("error")
  /\ UNCHANGED <<remote, manifest, packaged, loaded>>

InstallManifest ==
  /\ pc = "install manifest"
  /\ manifest' = got
  /\ Return("done")
  /\ UNCHANGED <<remote, rules, packaged, loaded>>

ManifestNotInstalled ==
  /\ pc = "install manifest"
  /\ manifest' \in {manifest, None, Damaged, got}
  /\ Return("error")
  /\ UNCHANGED <<remote, rules, packaged, loaded>>

(* A kill in the middle of a copy leaves a part of the file. *)
Kill ==
  /\ pc # "idle"
  /\ Return("none")
  /\ rules' \in IF pc = "install rules" THEN {rules, None, Damaged} ELSE {rules}
  /\ manifest' \in IF pc = "install manifest" THEN {manifest, None, Damaged} ELSE {manifest}
  /\ UNCHANGED <<remote, packaged, loaded>>

-----------------------------------------------------------------------------
(* The others. *)

Publish ==
  /\ remote < MaxRelease
  /\ remote' = remote + 1
  /\ UNCHANGED <<pc, got, body, local, result, packaged, loaded>>

(* Somebody edits or deletes the local rules. *)
Damage ==
  /\ pc = "idle"
  /\ result' = "none"
  /\ rules' \in {None, Damaged}
  /\ UNCHANGED <<remote, pc, got, body, manifest, packaged, loaded>>

(* Rules::load takes the first of its places that has a file; the built-in *)
(* rules, which it adds to, are not counted.                               *)
Load ==
  /\ loaded' = IF rules # None THEN rules ELSE packaged
  /\ UNCHANGED <<remote, pc, got, body, local, result, packaged>>

(* A file that cannot be read (it is locked, or no UTF-8) is passed over,  *)
(* and the next place is tried.                                            *)
LoadPassesOver ==
  /\ loaded' \in IF rules # None THEN {packaged, None} ELSE {None}
  /\ UNCHANGED <<remote, pc, got, body, local, result, packaged>>

Failure == NoManifest \/ NoRules \/ Block \/ RulesNotInstalled \/ ManifestNotInstalled

Work ==
  \/ Call \/ GetManifest \/ StopUpToDate \/ GetRules \/ Verify
  \/ InstallRules \/ InstallManifest

Next == Work \/ Failure \/ Kill \/ Publish \/ Damage \/ Load \/ LoadPassesOver

Spec == Init /\ [][Next]_vars

(* A call comes to its end, and the task calls again. *)
FairSpec == Spec /\ WF_vars(Work \/ Failure) /\ WF_vars(Load)

-----------------------------------------------------------------------------
(* What is checked. *)

(* The update reports the rules as up to date or applied only if the local *)
(* rules are those of the manifest it had downloaded, and version.json     *)
(* names their version, whatever happened in earlier calls.                *)
SuccessAgrees ==
  pc = "idle" /\ result \in {"latest", "done"} =>
    /\ rules \in Releases
    /\ manifest \in Releases
    /\ Version[manifest] = Version[rules]

(* An update touches the rules that a scan reads only with a download that *)
(* has the hash its manifest names.  A damaged download, or the rules of   *)
(* another release, never get there, not in part (a kill), not by way of   *)
(* an installation that fails, and do not cost the rules that are there.   *)
OnlyVerifiedRules ==
  [][pc # "idle" /\ rules' # rules => body = got]_vars

(* Two files of different releases are made to agree: when failures and    *)
(* damages end, the server answers with its last release and the files can *)
(* be read, the rules of that release are installed, and scans read them.  *)
Settled ==
  <>[][ /\ ~Failure /\ ~Kill /\ ~Damage
        /\ GetManifest => got' = remote
        /\ GetRules => body' = remote
        /\ LoadPassesOver => Load ]_vars

RulesHeal == Settled => <>[](rules = remote /\ manifest \in Releases /\ loaded = remote)
=============================================================================
