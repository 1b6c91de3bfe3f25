----------------------------- MODULE Automation -----------------------------
(***************************************************************************)
(* One of the four automatic starts of src/src/automation.rs: a value of   *)
(* the key Run (the window, the watcher) or a scheduled task (the update   *)
(* of the databases or of the program).  Its button switches it off if it  *)
(* is registered for the path of this program, and else registers it,      *)
(* over whatever was there; the status lines tell which of the two it is.  *)
(*                                                                         *)
(* Each step starts reg.exe or schtasks.exe.  Several windows, of the same *)
(* copy of the program or of copies in different folders, do so at the     *)
(* same time, for nothing keeps them apart.                                *)
(***************************************************************************)
EXTENDS Integers

CONSTANTS
  Windows,    \* windows of the program
  Path,       \* the path of the copy each of them runs
  Legible,    \* paths that the answer of a query spells as the program does
  OldPath     \* where a copy was before it was moved

Paths == {Path[w] : w \in Windows} \cup {OldPath}

ASSUME AutomationAssumption ==
  /\ DOMAIN Path = Windows /\ Legible \subseteq Paths
  /\ Paths \cap {"none", "unseen"} = {}

VARIABLES
  setting,    \* "value" or "task"
  entry,      \* the path that is registered, if any
  step,       \* of each window
  answer,     \* what each window told last
  seen,       \* history: the entry at the last query of each window, if it could be made
  since       \* history: the windows that changed the entry after that, until it answers

autoVars == <<setting, entry, step, answer, seen, since>>

Entries == Paths \cup {"none"}

AutoTypeOK ==
  /\ setting \in {"value", "task"}
  /\ entry \in Entries
  /\ step \in [Windows -> {"idle", "toggle", "delete", "add", "status", "exists"}]
  /\ answer \in [Windows -> {"nothing", "on", "off", "error",
                             "is on", "mismatch", "is off", "unknown"}]
  /\ seen \in [Windows -> Entries \cup {"unseen"}]
  /\ since \in [Windows -> SUBSET Windows]

AutoInit ==
  /\ setting \in {"value", "task"}
  /\ entry \in Entries
  /\ step = [w \in Windows |-> "idle"]
  /\ answer = [w \in Windows |-> "nothing"]
  /\ seen = [w \in Windows |-> "unseen"]
  /\ since = [w \in Windows |-> {}]

-----------------------------------------------------------------------------

Goes(w, next) == step' = [step EXCEPT ![w] = next]

Tells(w, words) ==
  /\ answer' = [answer EXCEPT ![w] = words]
  /\ Goes(w, "idle")

Sees(w, what) == seen' = [seen EXCEPT ![w] = what]

Looks(w) == Sees(w, entry) /\ since' = [since EXCEPT ![w] = {}]

(* The windows that are at work do not learn of the change. *)
Changes(w, new) ==
  /\ entry' = new
  /\ since' = [v \in Windows |-> IF v = w \/ step[v] = "idle" THEN {} ELSE since[v] \cup {w}]

(* A click on the button, and show_status. *)
Click(w, first) ==
  /\ step[w] = "idle"
  /\ Goes(w, first)
  /\ answer' = [answer EXCEPT ![w] = "nothing"]
  /\ Sees(w, "unseen")
  /\ since' = [since EXCEPT ![w] = {}]
  /\ UNCHANGED <<setting, entry>>

(* reg_value_matches and task_matches: the text contains the path. *)
Matches(w) == entry = Path[w] /\ entry \in Legible

(* Mutant: whether anything is registered is asked, not whether it is ours. *)
QueryToggle_Exists(w) ==
  /\ step[w] = "toggle"
  /\ Looks(w)
  /\ Goes(w, IF entry # "none" THEN "delete" ELSE "add")
  /\ UNCHANGED <<setting, entry, answer>>

QueryToggle(w) ==
  /\ step[w] = "toggle"
  /\ Looks(w)
  /\ Goes(w, IF Matches(w) THEN "delete" ELSE "add")
  /\ UNCHANGED <<setting, entry, answer>>

QueryStatus(w) ==
  /\ step[w] = "status"
  /\ Looks(w)
  /\ IF Matches(w) THEN Tells(w, "is on") ELSE Goes(w, "exists") /\ UNCHANGED answer
  /\ UNCHANGED <<setting, entry>>

QueryExists(w) ==
  /\ step[w] = "exists"
  /\ Looks(w)
  /\ Tells(w, IF entry # "none" THEN "mismatch" ELSE "is off")
  /\ UNCHANGED <<setting, entry>>

(* The query cannot be started: the same as a text without the path. *)
QueryFails(w) ==
  /\ Sees(w, "unseen")
  /\ \/ step[w] = "toggle" /\ Goes(w, "add") /\ UNCHANGED answer
     \/ step[w] = "status" /\ Goes(w, "exists") /\ UNCHANGED answer
     \/ step[w] = "exists" /\ Tells(w, "is off")
  /\ UNCHANGED <<setting, entry, since>>

(* current_exe fails: a value is not queried then, a task not matched. *)
NoPath(w) ==
  /\ \/ step[w] \in {"toggle", "add"} /\ Tells(w, "error")
     \/ step[w] = "status" /\ setting = "value" /\ Tells(w, "unknown")
     \/ step[w] = "status" /\ setting = "task" /\ Goes(w, "exists") /\ UNCHANGED answer
  /\ UNCHANGED <<setting, entry, seen, since>>

(* There must be something to delete, whosever it is. *)
Delete(w) ==
  /\ step[w] = "delete"
  /\ IF entry # "none" THEN Changes(w, "none") /\ Tells(w, "off")
     ELSE UNCHANGED <<entry, since>> /\ Tells(w, "error")
  /\ UNCHANGED <<setting, seen>>

Add(w) ==
  /\ step[w] = "add"
  /\ Changes(w, Path[w])
  /\ Tells(w, "on")
  /\ UNCHANGED <<setting, seen>>

ChangeFails(w) ==
  /\ step[w] \in {"delete", "add"}
  /\ Tells(w, "error")
  /\ UNCHANGED <<setting, entry, seen, since>>

AutoNext ==
  \E w \in Windows :
    \/ Click(w, "toggle")
    \/ Click(w, "status")
    \/ QueryToggle(w)
    \/ QueryStatus(w)
    \/ QueryExists(w)
    \/ QueryFails(w)
    \/ NoPath(w)
    \/ Delete(w)
    \/ Add(w)
    \/ ChangeFails(w)

-----------------------------------------------------------------------------
(* What is checked; WindowActions names these for its run. *)

Told(w, words) == answer[w] # words /\ answer'[w] = words

(* The path of one of the windows that changed the entry since w's query. *)
RegisteredSince(w, path) == \E v \in since[w] : Path[v] = path

(* However many others toggle at the same time: a window switches off only  *)
(* if it has recognised its own copy, and what it removes is then of its    *)
(* copy or was registered by another window in the gap between its query    *)
(* and its deletion, never what was there before; it switches on for its    *)
(* own copy, and if that was registered already only because the query      *)
(* failed or its answer was garbled; and with an error it changes nothing.  *)
ToldOfToggle ==
  \A w \in Windows :
    /\ Told(w, "off") =>
         /\ entry' = "none" /\ seen[w] = Path[w] /\ Path[w] \in Legible
         /\ entry # Path[w] => RegisteredSince(w, entry)
    /\ Told(w, "on") =>
         /\ entry' = Path[w]
         /\ seen[w] = Path[w] => Path[w] \notin Legible
    /\ Told(w, "error") => entry' = entry

(* The status line is what is registered when its last query is answered,   *)
(* with two exceptions: it calls the window's own copy mismatched if that   *)
(* was registered between its two queries, if the first one failed or if    *)
(* its answer was garbled, and off what a query that failed did not find.   *)
ToldOfStatus ==
  \A w \in Windows :
    /\ Told(w, "is on") => entry = Path[w]
    /\ Told(w, "mismatch") =>
         /\ entry # "none"
         /\ entry = Path[w] => \/ RegisteredSince(w, entry)
                               \/ seen[w] = "unseen"
                               \/ Path[w] \notin Legible
    /\ Told(w, "is off") => entry = "none" \/ seen'[w] = "unseen"
=============================================================================
