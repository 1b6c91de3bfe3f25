----------------------------- MODULE SelfUpdate -----------------------------
(***************************************************************************)
(* The hand-over of the watcher in a program update: the updater           *)
(* (`--self-update-silent`, check_and_schedule_update of                   *)
(* src/src/self_update.rs) stops the watcher and starts the staged         *)
(* executable as the helper (`--apply-update`, apply_update), which waits  *)
(* for the updater, replaces the program and starts the watcher again.     *)
(* Both talk to the watcher through the named objects of Watcher; every    *)
(* step of them that touches the objects is a step of that module.         *)
(*                                                                         *)
(* One update is followed.  The replacement itself is ReplaceExe; here     *)
(* only its outcome for the target path counts.  Windows that show the     *)
(* state of the watcher probe its mutex meanwhile (the other Clients).     *)
(***************************************************************************)
EXTENDS Watcher, Naturals

CONSTANTS Updater,      \* the updater, as a client of Watcher
          MaxPolls      \* 20 polls of 250 ms in the code

ASSUME SelfUpdateAssumption ==
  /\ Updater \in Clients
  /\ MaxPolls \in Nat \ {0}

VARIABLES
  upc,          \* what the updater does next
  polls,        \* how often it has waited for the watcher
  wasRunning,   \* watcher_was_running
  hpc,          \* what the helper does next
  target,       \* there is an executable at the target path
  thwarted      \* history: a call that the start of the watcher after the update
                \* needs has failed, or the mutex it met was kept by a probe alone

selfVars == <<upc, polls, wasRunning, hpc, target, thwarted>>
allVars == <<vars, selfVars>>

UpdaterPC == {"checking", "probe", "probing", "stop", "opened", "set",
              "poll", "polling", "launch", "start", "starting", "spawn", "exited"}

HelperPC == {"off", "waiting", "replacing", "restarting", "done"}

SelfTypeOK ==
  /\ TypeOK
  /\ upc \in UpdaterPC
  /\ polls \in 0 .. MaxPolls
  /\ wasRunning \in BOOLEAN
  /\ hpc \in HelperPC
  /\ target \in BOOLEAN
  /\ thwarted \in BOOLEAN

SelfInit ==
  /\ Init
  /\ upc = "checking"
  /\ polls = 0
  /\ wasRunning = FALSE
  /\ hpc = "off"
  /\ target = TRUE
  /\ thwarted = FALSE

(* The mutex exists only because a probe has not closed its handle yet.     *)
KeptByProbe == mutexHandles # {} /\ \A w \in Watchers : ~Active(w)

-----------------------------------------------------------------------------
(* The updater. *)

(* A newer release was found, downloaded, verified and expanded. *)
PackageReady ==
  /\ upc = "checking"
  /\ upc' = "probe"
  /\ UNCHANGED <<vars, polls, wasRunning, hpc, target, thwarted>>

(* One of the many early returns: nothing new, or not verified. *)
NoUpdate ==
  /\ upc = "checking"
  /\ upc' = "exited"
  /\ UNCHANGED <<vars, polls, wasRunning, hpc, target, thwarted>>

(* watcher_was_running = is_running(). *)
FindWatcher ==
  /\ upc = "probe"
  /\ ProbeFindsMutex(Updater)
  /\ wasRunning' = TRUE
  /\ upc' = "probing"
  /\ UNCHANGED <<polls, hpc, target, thwarted>>

FindNoWatcher ==
  /\ upc = "probe"
  /\ mutexHandles = {}
  /\ upc' = "launch"
  /\ UNCHANGED <<vars, polls, wasRunning, hpc, target, thwarted>>

EndProbe ==
  /\ upc = "probing"
  /\ CloseProbe(Updater)
  /\ upc' = "stop"
  /\ UNCHANGED <<polls, wasRunning, hpc, target, thwarted>>

(* Mutant: the handle of the stop event is not closed. *)
StopWatcher_LeavesHandle ==
  \/ /\ upc = "stop"
     /\ OpenStopEvent(Updater)
     /\ upc' = "opened"
     /\ UNCHANGED <<polls, wasRunning, hpc, target, thwarted>>
  \/ /\ upc = "stop"
     /\ stopHandles = {}
     /\ upc' = "poll"
     /\ UNCHANGED <<vars, polls, wasRunning, hpc, target, thwarted>>
  \/ /\ upc = "opened"
     /\ SetStopEvent(Updater)
     /\ upc' = "poll"
     /\ UNCHANGED <<polls, wasRunning, hpc, target, thwarted>>

(* request_stop; that it found no event is ignored. *)
StopWatcher ==
  \/ /\ upc = "stop"
     /\ OpenStopEvent(Updater)
     /\ upc' = "opened"
     /\ UNCHANGED <<polls, wasRunning, hpc, target, thwarted>>
  \/ /\ upc = "stop"
     /\ stopHandles = {}
     /\ upc' = "poll"
     /\ UNCHANGED <<vars, polls, wasRunning, hpc, target, thwarted>>
  \/ /\ upc = "opened"
     /\ SetStopEvent(Updater)
     /\ upc' = "set"
     /\ UNCHANGED <<polls, wasRunning, hpc, target, thwarted>>
  \/ /\ upc = "set"
     /\ CloseRequest(Updater)
     /\ upc' = "poll"
     /\ UNCHANGED <<polls, wasRunning, hpc, target, thwarted>>

(* Mutant: the updater does not look whether the watcher is gone. *)
WatcherGone_NotChecked ==
  /\ upc = "poll"
  /\ polls < MaxPolls
  /\ upc' = "launch"
  /\ UNCHANGED <<vars, polls, wasRunning, hpc, target, thwarted>>

(* Wait until is_running() is false, 20 times at the most. *)
WatcherGone ==
  /\ upc = "poll"
  /\ polls < MaxPolls
  /\ mutexHandles = {}
  /\ upc' = "launch"
  /\ UNCHANGED <<vars, polls, wasRunning, hpc, target, thwarted>>

(* is_running() is true: sleep 250 ms and look again. *)
WatcherStillThere ==
  \/ /\ upc = "poll"
     /\ polls < MaxPolls
     /\ ProbeFindsMutex(Updater)
     /\ upc' = "polling"
     /\ UNCHANGED <<polls, wasRunning, hpc, target, thwarted>>
  \/ /\ upc = "polling"
     /\ CloseProbe(Updater)
     /\ polls' = polls + 1
     /\ upc' = "poll"
     /\ UNCHANGED <<wasRunning, hpc, target, thwarted>>

GiveUpWaiting ==
  /\ upc = "poll"
  /\ polls = MaxPolls
  /\ upc' = "launch"
  /\ UNCHANGED <<vars, polls, wasRunning, hpc, target, thwarted>>

LaunchHelper ==
  /\ upc = "launch"
  /\ hpc' = "waiting"
  /\ upc' = "exited"
  /\ UNCHANGED <<vars, polls, wasRunning, target, thwarted>>

(* The helper cannot be started: the watcher is, with start_background.     *)
LaunchFails ==
  /\ upc = "launch"
  /\ upc' = IF wasRunning THEN "start" ELSE "exited"
  /\ UNCHANGED <<vars, polls, wasRunning, hpc, target, thwarted>>

(* start_background: is_running, then current_exe and spawn, either of      *)
(* which may fail.                                                          *)
StartAgain ==
  \/ /\ upc = "start"
     /\ ProbeFindsMutex(Updater)
     /\ thwarted' = (thwarted \/ KeptByProbe)
     /\ upc' = "starting"
     /\ UNCHANGED <<polls, wasRunning, hpc, target>>
  \/ /\ upc = "starting"
     /\ CloseProbe(Updater)
     /\ upc' = "exited"
     /\ UNCHANGED <<polls, wasRunning, hpc, target, thwarted>>
  \/ /\ upc = "start"
     /\ StartFindsNone(Updater)
     /\ upc' = "spawn"
     /\ UNCHANGED <<polls, wasRunning, hpc, target, thwarted>>
  \/ /\ upc = "spawn"
     /\ \/ (\E w \in Watchers : Spawn(Updater, w)) /\ UNCHANGED thwarted
        \/ SpawnFails(Updater) /\ thwarted' = TRUE
     /\ upc' = "exited"
     /\ UNCHANGED <<polls, wasRunning, hpc, target>>

UpdaterStep ==
  \/ PackageReady \/ NoUpdate
  \/ FindWatcher \/ FindNoWatcher \/ EndProbe
  \/ StopWatcher \/ WatcherGone \/ WatcherStillThere \/ GiveUpWaiting
  \/ LaunchHelper \/ LaunchFails \/ StartAgain

-----------------------------------------------------------------------------
(* The helper. *)

(* wait_for_process: the updater has nothing left to do but to write its    *)
(* log, so the wait does not time out.                                      *)
UpdaterHasExited ==
  /\ hpc = "waiting"
  /\ upc = "exited"
  /\ hpc' = "replacing"
  /\ UNCHANGED <<vars, upc, polls, wasRunning, target, thwarted>>

(* Mutant: apply_update returns when the replacement has failed. *)
Replace_ReturnsEarly ==
  /\ hpc = "replacing"
  /\ target' \in BOOLEAN
  /\ hpc' \in {IF wasRunning THEN "restarting" ELSE "done", "done"}
  /\ UNCHANGED <<vars, upc, polls, wasRunning, thwarted>>

(* The target is the new or the old executable, or in the worst case there  *)
(* is none (see ReplaceExe).                                                *)
Replace ==
  /\ hpc = "replacing"
  /\ target' \in BOOLEAN
  /\ hpc' = IF wasRunning THEN "restarting" ELSE "done"
  /\ UNCHANGED <<vars, upc, polls, wasRunning, thwarted>>

(* The helper does not find its own path and returns at once.               *)
HelperGivesUp ==
  /\ hpc = "waiting"
  /\ upc = "exited"
  /\ hpc' = "done"
  /\ thwarted' = TRUE
  /\ UNCHANGED <<vars, upc, polls, wasRunning, target>>

(* The target is started; when it cannot be, that is only logged.           *)
Restart ==
  /\ hpc = "restarting"
  /\ \/ target /\ (\E w \in Watchers : Launch(w)) /\ UNCHANGED thwarted
     \/ UNCHANGED vars /\ thwarted' = TRUE
  /\ hpc' = "done"
  /\ UNCHANGED <<upc, polls, wasRunning, target>>

HelperStep == UpdaterHasExited \/ HelperGivesUp \/ Replace \/ Restart

(* Nothing of the update is left to be done. *)
UpdateOver == upc = "exited" /\ hpc \in {"off", "done"}

-----------------------------------------------------------------------------
(* The watchers.  One may be started before the update; its calls succeed.  *)
(* (Watcher has failures at any time, kills and clients that start or stop.)*)
FirstLaunch ==
  /\ upc = "checking"
  /\ \A w \in Watchers : pc[w] = "off"
  /\ \E w \in Watchers : Launch(w)
  /\ UNCHANGED selfVars

(* A watcher that is started meets the mutex, which a probe may have kept.  *)
WatcherStarts(w) ==
  /\ CreateMutex(w)
  /\ thwarted' = (thwarted \/ KeptByProbe)
  /\ UNCHANGED <<upc, polls, wasRunning, hpc, target>>

WatcherRuns(w) ==
  /\ \/ Leave(w) \/ CreateStopEvent(w) \/ WriteRunning(w)
     \/ WaitReturnsChange(w) \/ FinishRound(w) \/ WaitReturnsStop(w)
     \/ CloseStopEvent(w) \/ CloseMutex(w) \/ WriteStopped(w)
  /\ UNCHANGED selfVars

(* A call of the watcher after the update fails: it does not start, or ends.*)
WatcherFails(w) ==
  /\ UpdateOver
  /\ CreateMutexFails(w) \/ CreateStopEventFails(w) \/ WaitFails(w)
  /\ thwarted' = TRUE
  /\ UNCHANGED <<upc, polls, wasRunning, hpc, target>>

WatcherGoesOn(w) == WatcherStarts(w) \/ WatcherRuns(w) \/ WatcherFails(w)

(* Another window asks whether a watcher runs (main.rs:299). *)
Probe(c) ==
  /\ c # Updater
  /\ ProbeFindsMutex(c) \/ CloseProbe(c)
  /\ UNCHANGED selfVars

SelfNext ==
  \/ FirstLaunch
  \/ \E w \in Watchers : WatcherGoesOn(w)
  \/ \E c \in Clients : Probe(c)
  \/ UpdaterStep
  \/ HelperStep

SelfSpec == SelfInit /\ [][SelfNext]_allVars

(* Every running process goes on.  How fast they are relative to each       *)
(* other is left open: a poll of the updater is a step, not 250 ms.  A      *)
(* window that probes may keep its handle for as long as it likes.          *)
FairSelfSpec ==
  /\ SelfSpec
  /\ \A w \in Watchers : WF_allVars(WatcherGoesOn(w))
  /\ WF_allVars(UpdaterStep)
  /\ WF_allVars(HelperStep)

-----------------------------------------------------------------------------
Somebody == \E w \in Watchers : Watching(w)

(* The updater has seen no mutex after its stop request. *)
SawWatcherGone == polls < MaxPolls

(* The stop request of the updater never reaches the watcher that the       *)
(* helper (or the updater itself) starts: no watcher finds its stop event   *)
(* signaled when it creates it.                                             *)
StopNotCarriedOver ==
  [][\A w \in Watchers : pc[w] = "owner" /\ pc'[w] = "setup" => ~signaled']_allVars

(* The two programs are never mixed: while the helper replaces the          *)
(* executable, no watcher is in its loop, if the updater found one and saw  *)
(* it end.  It is otherwise when it gave up waiting, took a watcher that    *)
(* has no mutex yet for none, or a window starts a watcher meanwhile, which *)
(* SelfNext leaves out.                                                     *)
WatcherStoppedFirst ==
  hpc \in {"replacing", "restarting"} /\ wasRunning /\ SawWatcherGone => ~Somebody

(* README.md:34, "restores/restarts the watcher after the replacement       *)
(* attempt", where it holds: when the updater saw the watcher end, a        *)
(* watcher runs after the update, also after one whose helper could not be  *)
(* started, unless a call that this takes has failed (the executable is     *)
(* gone, spawn, current_exe, the calls of the new watcher) or a probe kept  *)
(* the mutex and passed for a watcher.                                      *)
RestartedIfSeenToEnd ==
  (UpdateOver /\ wasRunning /\ SawWatcherGone) ~> (Somebody \/ thwarted)
=============================================================================
