------------------------------- MODULE GuiJobs -------------------------------
(***************************************************************************)
(* The window of src/src/main.rs and the background jobs it starts: one    *)
(* thread handles the messages, a click starts a worker thread unless one  *)
(* of the two running flags is set, and a worker leaves its result in the  *)
(* slot of its kind, clears its flag and posts a message, in that order.   *)
(***************************************************************************)
EXTENDS Naturals, FiniteSets

CONSTANTS Jobs,         \* the jobs that may be started, each once (a bound)
          NoJob         \* the slot is empty

ASSUME GuiAssumption == NoJob \notin Jobs

VARIABLES
  gui,      \* "pump": in GetMessageW; "click": a click is being handled;
            \* "closed": the message loop has ended, and the process with it
  running,  \* UPDATE_RUNNING and WORK_RUNNING
  slot,     \* UPDATE_RESULT and WORK_RESULT: the job whose lines are there
  posted,   \* the WM_APP_.._DONE messages in the queue, by kind
  kind,     \* the kind of each job
  jpc,      \* where each job's worker thread is
  shown     \* the jobs whose lines the list box has shown

vars == <<gui, running, slot, posted, kind, jpc, shown>>

Kinds == {"update", "work"}

(* "working": in update_all, a scan or a baseline job; "stored": the result *)
(* is in the slot; "cleared": the flag is cleared; "done": message posted;  *)
(* "unposted": the thread has ended, but its message was not posted.        *)
JobPC == {"new", "working", "stored", "cleared", "done", "unposted"}

TypeOK ==
  /\ gui \in {"pump", "click", "closed"}
  /\ running \in [Kinds -> BOOLEAN]
  /\ slot \in [Kinds -> Jobs \cup {NoJob}]
  /\ posted \in [Kinds -> Nat]
  /\ kind \in [Jobs -> Kinds]
  /\ jpc \in [Jobs -> JobPC]
  /\ shown \subseteq Jobs

Init ==
  /\ gui = "pump"
  /\ running = [k \in Kinds |-> FALSE]
  /\ slot = [k \in Kinds |-> NoJob]
  /\ posted = [k \in Kinds |-> 0]
  /\ kind \in [Jobs -> Kinds]
  /\ jpc = [j \in Jobs |-> "new"]
  /\ shown = {}

Other(k) == IF k = "update" THEN "work" ELSE "update"

-----------------------------------------------------------------------------
(* The message loop.  GetMessageW returns posted messages before input, so  *)
(* a click is taken up only when no message is posted; one may be posted    *)
(* before the handler runs.                                                 *)
TakeClick ==
  /\ gui = "pump"
  /\ \A k \in Kinds : posted[k] = 0
  /\ gui' = "click"
  /\ UNCHANGED <<running, slot, posted, kind, jpc, shown>>

(* Mutant: the flag of the other kind is not looked at. *)
StartJob_OwnFlagOnly(j) ==
  /\ gui = "click"
  /\ jpc[j] = "new"
  /\ ~running[kind[j]]
  /\ running' = [running EXCEPT ![kind[j]] = TRUE]
  /\ jpc' = [jpc EXCEPT ![j] = "working"]
  /\ gui' = "pump"
  /\ UNCHANGED <<slot, posted, kind, shown>>

(* Mutant: the result of compare_exchange is ignored. *)
StartJob_IgnoresExchange(j) ==
  /\ gui = "click"
  /\ jpc[j] = "new"
  /\ ~running[Other(kind[j])]
  /\ running' = [running EXCEPT ![kind[j]] = TRUE]
  /\ jpc' = [jpc EXCEPT ![j] = "working"]
  /\ gui' = "pump"
  /\ UNCHANGED <<slot, posted, kind, shown>>

(* start_update_async and start_work_async: the flag of the other kind is   *)
(* loaded, then the own one is exchanged.  Only this thread ever sets a     *)
(* flag, so nothing can change the outcome between the two.                 *)
StartJob(j) ==
  /\ gui = "click"
  /\ jpc[j] = "new"
  /\ ~running[Other(kind[j])]
  /\ ~running[kind[j]]
  /\ running' = [running EXCEPT ![kind[j]] = TRUE]
  /\ jpc' = [jpc EXCEPT ![j] = "working"]
  /\ gui' = "pump"
  /\ UNCHANGED <<slot, posted, kind, shown>>

(* A refused click, or a click on a button that starts no job. *)
IgnoreClick ==
  /\ gui = "click"
  /\ gui' = "pump"
  /\ UNCHANGED <<running, slot, posted, kind, jpc, shown>>

(* Mutant: the message is handled without taking what is in the slot. *)
ShowResult_LeavesSlot(k) ==
  /\ gui = "pump"
  /\ posted[k] > 0
  /\ posted' = [posted EXCEPT ![k] = @ - 1]
  /\ shown' = shown \cup ({slot[k]} \ {NoJob})
  /\ UNCHANGED <<gui, running, slot, kind, jpc>>

(* WM_APP_UPDATE_DONE and WM_APP_WORK_DONE: take what is in the slot, show  *)
(* it if there is anything.                                                 *)
ShowResult(k) ==
  /\ gui = "pump"
  /\ posted[k] > 0
  /\ posted' = [posted EXCEPT ![k] = @ - 1]
  /\ slot' = [slot EXCEPT ![k] = NoJob]
  /\ shown' = shown \cup ({slot[k]} \ {NoJob})
  /\ UNCHANGED <<gui, running, kind, jpc>>

(* WM_DESTROY: PostQuitMessage, run returns, main returns: the process ends *)
(* and takes every worker with it, wherever it is; so does killing it.      *)
CloseWindow ==
  /\ gui # "closed"
  /\ gui' = "closed"
  /\ UNCHANGED <<running, slot, posted, kind, jpc, shown>>

-----------------------------------------------------------------------------
(* A worker thread. *)

(* The work is done; the lines replace whatever is in the slot. *)
StoreResult(j) ==
  /\ gui # "closed"
  /\ jpc[j] = "working"
  /\ slot' = [slot EXCEPT ![kind[j]] = j]
  /\ jpc' = [jpc EXCEPT ![j] = "stored"]
  /\ UNCHANGED <<gui, running, posted, kind, shown>>

(* UPDATE_RUNNING or WORK_RUNNING is cleared, before the message is posted. *)
ClearFlag(j) ==
  /\ gui # "closed"
  /\ jpc[j] = "stored"
  /\ running' = [running EXCEPT ![kind[j]] = FALSE]
  /\ jpc' = [jpc EXCEPT ![j] = "cleared"]
  /\ UNCHANGED <<gui, slot, posted, kind, shown>>

(* Mutant: the worker posts the message of the other kind. *)
PostDone_OtherKind(j) ==
  /\ gui # "closed"
  /\ jpc[j] = "cleared"
  /\ posted' = [posted EXCEPT ![Other(kind[j])] = @ + 1]
  /\ jpc' = [jpc EXCEPT ![j] = "done"]
  /\ UNCHANGED <<gui, running, slot, kind, shown>>

(* PostMessageW to the window; that it fails (a full queue) is ignored.     *)
PostDone(j) ==
  /\ gui # "closed"
  /\ jpc[j] = "cleared"
  /\ \/ /\ posted' = [posted EXCEPT ![kind[j]] = @ + 1]
        /\ jpc' = [jpc EXCEPT ![j] = "done"]
     \/ /\ jpc' = [jpc EXCEPT ![j] = "unposted"]
        /\ UNCHANGED posted
  /\ UNCHANGED <<gui, running, slot, kind, shown>>

-----------------------------------------------------------------------------
WorkerStep(j) == StoreResult(j) \/ ClearFlag(j) \/ PostDone(j)

Next ==
  \/ TakeClick \/ IgnoreClick \/ CloseWindow
  \/ \E k \in Kinds : ShowResult(k)
  \/ \E j \in Jobs : StartJob(j) \/ WorkerStep(j)

Spec == Init /\ [][Next]_vars

(* Threads are scheduled, the message loop dispatches what is posted and    *)
(* returns from its handlers.  That a job's own work ends is not assumed:   *)
(* the programs that the scanners start have no time limit (cmd.output() of *)
(* scanner.rs:32), and one loop over a text may not end                     *)
(* (scanner_extra6.rs:236).  Nobody has to click or to close the window.    *)
FairSpec ==
  /\ Spec
  /\ \A j \in Jobs : WF_vars(ClearFlag(j) \/ PostDone(j))
  /\ \A k \in Kinds : WF_vars(ShowResult(k))
  /\ WF_vars(IgnoreClick)

-----------------------------------------------------------------------------
(* The job has not cleared its flag yet. *)
Busy(j) == jpc[j] \in {"working", "stored"}

(* A scan or baseline job and a database update never overlap in one        *)
(* window, nor do two of a kind: what a scan reads is not replaced under it *)
(* by the window it was started from (main.rs:174-203).                     *)
AtMostOneJob == \A i, j \in Jobs : Busy(i) /\ Busy(j) => i = j

(* A result in a slot has a message in the queue or a worker that is about  *)
(* to post one: nothing stays in a slot for want of a message, but for a    *)
(* PostMessageW that failed (main.rs:186-191).                              *)
NothingStranded ==
  \A k \in Kinds : slot[k] # NoJob =>
    \/ posted[k] > 0
    \/ \E j \in Jobs : kind[j] = k /\ jpc[j] \in {"stored", "cleared"}
    \/ jpc[slot[k]] = "unposted"

(* A result that was not seen may be overwritten: only in the short time in *)
(* which its worker has cleared the flag and its message has not been       *)
(* dispatched, or when it has no message.                                   *)
MayBeLost(k) == jpc[slot[k]] \in {"cleared", "unposted"} \/ posted[k] > 0

(* No other result is overwritten, and never the one of a job whose flag is *)
(* still set.                                                               *)
OverwrittenOnlyBeforeDispatch ==
  [][\A k \in Kinds : slot[k] # NoJob /\ slot'[k] \notin {slot[k], NoJob} =>
       ~Busy(slot[k]) /\ MayBeLost(k)]_vars

(* While the window is open, a finished job is shown, or the result of a    *)
(* later job of its kind is shown in its place, unless it has no message.   *)
SomeResultShown ==
  \A k \in Kinds : []<>(slot[k] = NoJob \/ jpc[slot[k]] = "unposted" \/ gui = "closed")

(* No job works for ever in a window that stays open (at most one is at     *)
(* work, and a started one works until it ends).                            *)
WorkEnds == []<>(gui = "closed" \/ \A j \in Jobs : jpc[j] # "working")

(* While the window is open, no running flag stays set, so that the buttons *)
(* work again.                                                              *)
FlagsAreCleared == \A k \in Kinds : []<>(~running[k] \/ gui = "closed")

(* Together, the way a user sees them: the result of a job that comes to an *)
(* end is shown, and the buttons are usable again if every job does.        *)
JobsComeToAnEnd == SomeResultShown /\ (WorkEnds => FlagsAreCleared)
=============================================================================
