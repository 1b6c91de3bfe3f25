------------------------------- MODULE Watcher -------------------------------
(***************************************************************************)
(* The life cycle of the background watcher of src/src/monitor.rs: the     *)
(* processes that run `QuietGuard.exe --watch` (run_watcher) and the       *)
(* clients that start, probe and stop them (start_background, is_running,  *)
(* request_stop, called by the window and by the self-updater).            *)
(*                                                                         *)
(* They share nothing but two named kernel objects and one file.  A named  *)
(* object exists exactly as long as some process has a handle to it, and   *)
(* every probe and every rejected watcher has such a handle for a moment.  *)
(* That is why the objects are modelled by the sets of their handles.      *)
(*                                                                         *)
(* Every Windows call is a step of its own; the killing of a process (a    *)
(* logoff, Task Manager, `panic = "abort"`) may come between any two.      *)
(***************************************************************************)
EXTENDS FiniteSets

CONSTANTS Watchers,     \* processes that may run `--watch`
          Clients,      \* threads that start, probe and stop watchers
          NoWatcher     \* "nobody", in the refinement of SingleInstance

ASSUME WatcherAssumption ==
  /\ Watchers \cap Clients = {}
  /\ NoWatcher \notin Watchers

VARIABLES
  pc,             \* where each watcher process is in run_watcher
  cpc,            \* where each client is in its call
  mutexHandles,   \* processes with a handle to Local\QuietGuardWatcherMutex
  stopHandles,    \* processes with a handle to Local\QuietGuardWatcherStop
  signaled,       \* the stop event is signaled (it is manual-reset)
  stateFile,      \* watcher.state: "running=1", "running=0", or "absent" (or cut off)
  uncleared       \* history: since running=0 was last written, a watcher that may
                  \* have written running=1 was killed, or failed to write running=0

vars == <<pc, cpc, mutexHandles, stopHandles, signaled, stateFile, uncleared>>

(* The steps of run_watcher at which a process may be found.  "leaving" has *)
(* a mutex handle it is about to close: it lost, or got no stop event.      *)
WatcherPC == {"off", "starting", "leaving", "owner", "setup", "waiting",
              "busy", "stopping", "unlocking", "ending"}

(* "probing" has a mutex handle (is_running), "spawning" has seen no mutex, *)
(* "opened" and "set" have a handle to the stop event (request_stop).       *)
ClientPC == {"idle", "probing", "spawning", "opened", "set"}

(* The process created the mutex and has not closed it: it is the watcher.  *)
Active(w) ==
  pc[w] \in {"owner", "setup", "waiting", "busy", "stopping", "unlocking"}

(* The process is in the loop of run_watcher. *)
Watching(w) == pc[w] \in {"waiting", "busy"}

TypeOK ==
  /\ pc \in [Watchers -> WatcherPC]
  /\ cpc \in [Clients -> ClientPC]
  /\ mutexHandles \subseteq Watchers \cup Clients
  /\ stopHandles \subseteq Watchers \cup Clients
  /\ signaled \in BOOLEAN
  /\ stateFile \in {"absent", "running=1", "running=0"}
  /\ uncleared \in BOOLEAN

Init ==
  /\ pc = [w \in Watchers |-> "off"]
  /\ cpc = [c \in Clients |-> "idle"]
  /\ mutexHandles = {}
  /\ stopHandles = {}
  /\ signaled = FALSE
  /\ stateFile = "absent"
  /\ uncleared = FALSE

-----------------------------------------------------------------------------
(* run_watcher *)

(* What the file says after a write_state whose failure is ignored: that    *)
(* the directory or the file could not be opened leaves it alone, a write   *)
(* that fails half-way leaves it cut off.                                   *)
FileAfterFailure == {stateFile, "absent"}

(* The Run value of the monitor autostart or the update helper starts       *)
(* `--watch` without looking whether a watcher runs.                        *)
Launch(w) ==
  /\ pc[w] = "off"
  /\ pc' = [pc EXCEPT ![w] = "starting"]
  /\ UNCHANGED <<cpc, mutexHandles, stopHandles, signaled, stateFile, uncleared>>

(* CreateMutexW returns null: no handle, the process returns. *)
CreateMutexFails(w) ==
  /\ pc[w] = "starting"
  /\ pc' = [pc EXCEPT ![w] = "off"]
  /\ UNCHANGED <<cpc, mutexHandles, stopHandles, signaled, stateFile, uncleared>>

(* Mutant: ERROR_ALREADY_EXISTS is not looked at. *)
CreateMutex_IgnoresExisting(w) ==
  /\ pc[w] = "starting"
  /\ pc' = [pc EXCEPT ![w] = "owner"]
  /\ mutexHandles' = mutexHandles \cup {w}
  /\ UNCHANGED <<cpc, stopHandles, signaled, stateFile, uncleared>>

(* Mutant: the handle goes out of scope and is closed when it was created. *)
CreateMutex_DropsHandle(w) ==
  /\ pc[w] = "starting"
  /\ pc' = [pc EXCEPT ![w] = IF mutexHandles = {} THEN "owner" ELSE "leaving"]
  /\ UNCHANGED <<cpc, mutexHandles, stopHandles, signaled, stateFile, uncleared>>

(* CreateMutexW opens the mutex or creates it; only who created it goes on. *)
CreateMutex(w) ==
  /\ pc[w] = "starting"
  /\ pc' = [pc EXCEPT ![w] = IF mutexHandles = {} THEN "owner" ELSE "leaving"]
  /\ mutexHandles' = mutexHandles \cup {w}
  /\ UNCHANGED <<cpc, stopHandles, signaled, stateFile, uncleared>>

(* CloseHandle(mutex); return. *)
Leave(w) ==
  /\ pc[w] = "leaving"
  /\ pc' = [pc EXCEPT ![w] = "off"]
  /\ mutexHandles' = mutexHandles \ {w}
  /\ UNCHANGED <<cpc, stopHandles, signaled, stateFile, uncleared>>

(* CreateEventW creates the stop event unsignaled, or opens the one that is *)
(* there, in the state it has: ERROR_ALREADY_EXISTS is not looked at.       *)
CreateStopEvent(w) ==
  /\ pc[w] = "owner"
  /\ pc' = [pc EXCEPT ![w] = "setup"]
  /\ signaled' = (signaled /\ stopHandles # {})
  /\ stopHandles' = stopHandles \cup {w}
  /\ UNCHANGED <<cpc, mutexHandles, stateFile, uncleared>>

(* Mutant: the failed CreateEventW is taken for a created one. *)
CreateStopEventFails_GoesOn(w) ==
  /\ pc[w] = "owner"
  /\ pc' = [pc EXCEPT ![w] = "setup"]
  /\ UNCHANGED <<cpc, mutexHandles, stopHandles, signaled, stateFile, uncleared>>

(* CreateEventW returns null: the mutex is closed, the process returns. *)
CreateStopEventFails(w) ==
  /\ pc[w] = "owner"
  /\ pc' = [pc EXCEPT ![w] = "leaving"]
  /\ UNCHANGED <<cpc, mutexHandles, stopHandles, signaled, stateFile, uncleared>>

(* The watches are made and write_state(true, ..) is called. *)
WriteRunning(w) ==
  /\ pc[w] = "setup"
  /\ pc' = [pc EXCEPT ![w] = "waiting"]
  /\ stateFile' \in {"running=1"} \cup FileAfterFailure
  /\ UNCHANGED <<cpc, mutexHandles, stopHandles, signaled, uncleared>>

(* Mutant: the stop event is the last of the handles, not the first. *)
WaitReturnsChange_StopLast(w) ==
  /\ pc[w] = "waiting"
  /\ pc' = [pc EXCEPT ![w] = "busy"]
  /\ UNCHANGED <<cpc, mutexHandles, stopHandles, signaled, stateFile, uncleared>>

(* WaitForMultipleObjects returns the lowest index that is signaled, and    *)
(* the stop event has index 0: a timeout or a registry change is returned   *)
(* only while no stop is asked for.                                         *)
WaitReturnsChange(w) ==
  /\ pc[w] = "waiting"
  /\ ~signaled
  /\ pc' = [pc EXCEPT ![w] = "busy"]
  /\ UNCHANGED <<cpc, mutexHandles, stopHandles, signaled, stateFile, uncleared>>

(* The body of the loop; when a missing key was found, it calls             *)
(* write_state(true, ..) again.                                             *)
FinishRound(w) ==
  /\ pc[w] = "busy"
  /\ pc' = [pc EXCEPT ![w] = "waiting"]
  /\ stateFile' \in {"running=1"} \cup FileAfterFailure
  /\ UNCHANGED <<cpc, mutexHandles, stopHandles, signaled, uncleared>>

WaitReturnsStop(w) ==
  /\ pc[w] = "waiting"
  /\ signaled
  /\ pc' = [pc EXCEPT ![w] = "stopping"]
  /\ UNCHANGED <<cpc, mutexHandles, stopHandles, signaled, stateFile, uncleared>>

(* Mutant: WAIT_FAILED returns from run_watcher instead of leaving the loop. *)
WaitFails_Returns(w) ==
  /\ pc[w] = "waiting"
  /\ pc' = [pc EXCEPT ![w] = "off"]
  /\ mutexHandles' = mutexHandles \ {w}
  /\ stopHandles' = stopHandles \ {w}
  /\ UNCHANGED <<cpc, signaled, stateFile, uncleared>>

(* WAIT_FAILED ends the loop as well. *)
WaitFails(w) ==
  /\ pc[w] = "waiting"
  /\ pc' = [pc EXCEPT ![w] = "stopping"]
  /\ UNCHANGED <<cpc, mutexHandles, stopHandles, signaled, stateFile, uncleared>>

(* Mutant: the stop event is left to be closed when the process ends. *)
CloseStopEvent_LeftOpen(w) ==
  /\ pc[w] = "stopping"
  /\ pc' = [pc EXCEPT ![w] = "unlocking"]
  /\ UNCHANGED <<cpc, mutexHandles, stopHandles, signaled, stateFile, uncleared>>

(* CloseHandle(stop_event), then CloseHandle(mutex), then write_state(false) *)
CloseStopEvent(w) ==
  /\ pc[w] = "stopping"
  /\ pc' = [pc EXCEPT ![w] = "unlocking"]
  /\ stopHandles' = stopHandles \ {w}
  /\ UNCHANGED <<cpc, mutexHandles, signaled, stateFile, uncleared>>

CloseMutex(w) ==
  /\ pc[w] = "unlocking"
  /\ pc' = [pc EXCEPT ![w] = "ending"]
  /\ mutexHandles' = mutexHandles \ {w}
  /\ UNCHANGED <<cpc, stopHandles, signaled, stateFile, uncleared>>

(* write_state(false, ..), and the process ends. *)
WriteStopped(w) ==
  /\ pc[w] = "ending"
  /\ pc' = [pc EXCEPT ![w] = "off"]
  /\ \/ stateFile' = "running=0" /\ uncleared' = FALSE
     \/ stateFile' \in FileAfterFailure /\ uncleared' = TRUE
  /\ UNCHANGED <<cpc, mutexHandles, stopHandles, signaled>>

(* Windows closes the handles of a process that ends in any way.  One that  *)
(* is killed while it writes the file leaves it cut off.                    *)
Kill(w) ==
  /\ pc[w] # "off"
  /\ pc' = [pc EXCEPT ![w] = "off"]
  /\ mutexHandles' = mutexHandles \ {w}
  /\ stopHandles' = stopHandles \ {w}
  /\ uncleared' = (uncleared \/ pc[w] \notin {"starting", "leaving", "owner"})
  /\ stateFile' \in IF pc[w] \in {"setup", "busy", "ending"} THEN FileAfterFailure ELSE {stateFile}
  /\ UNCHANGED <<cpc, signaled>>

-----------------------------------------------------------------------------
(* start_background, is_running and request_stop.  A probe that finds no    *)
(* mutex and a stop that finds no event return without changing anything.   *)

(* OpenMutexW finds the mutex. *)
ProbeFindsMutex(c) ==
  /\ cpc[c] = "idle"
  /\ mutexHandles # {}
  /\ cpc' = [cpc EXCEPT ![c] = "probing"]
  /\ mutexHandles' = mutexHandles \cup {c}
  /\ UNCHANGED <<pc, stopHandles, signaled, stateFile, uncleared>>

(* CloseHandle(handle); is_running returns true and nothing is started. *)
CloseProbe(c) ==
  /\ cpc[c] = "probing"
  /\ cpc' = [cpc EXCEPT ![c] = "idle"]
  /\ mutexHandles' = mutexHandles \ {c}
  /\ UNCHANGED <<pc, stopHandles, signaled, stateFile, uncleared>>

(* start_background: is_running returned false. *)
StartFindsNone(c) ==
  /\ cpc[c] = "idle"
  /\ mutexHandles = {}
  /\ cpc' = [cpc EXCEPT ![c] = "spawning"]
  /\ UNCHANGED <<pc, mutexHandles, stopHandles, signaled, stateFile, uncleared>>

Spawn(c, w) ==
  /\ cpc[c] = "spawning"
  /\ pc[w] = "off"
  /\ cpc' = [cpc EXCEPT ![c] = "idle"]
  /\ pc' = [pc EXCEPT ![w] = "starting"]
  /\ UNCHANGED <<mutexHandles, stopHandles, signaled, stateFile, uncleared>>

SpawnFails(c) ==
  /\ cpc[c] = "spawning"
  /\ cpc' = [cpc EXCEPT ![c] = "idle"]
  /\ UNCHANGED <<pc, mutexHandles, stopHandles, signaled, stateFile, uncleared>>

(* OpenEventW finds the stop event. *)
OpenStopEvent(c) ==
  /\ cpc[c] = "idle"
  /\ stopHandles # {}
  /\ cpc' = [cpc EXCEPT ![c] = "opened"]
  /\ stopHandles' = stopHandles \cup {c}
  /\ UNCHANGED <<pc, mutexHandles, signaled, stateFile, uncleared>>

SetStopEvent(c) ==
  /\ cpc[c] = "opened"
  /\ cpc' = [cpc EXCEPT ![c] = "set"]
  /\ signaled' = TRUE
  /\ UNCHANGED <<pc, mutexHandles, stopHandles, stateFile, uncleared>>

CloseRequest(c) ==
  /\ cpc[c] = "set"
  /\ cpc' = [cpc EXCEPT ![c] = "idle"]
  /\ stopHandles' = stopHandles \ {c}
  /\ UNCHANGED <<pc, mutexHandles, signaled, stateFile, uncleared>>

(* The window is closed or its process killed in the middle of a call. *)
KillClient(c) ==
  /\ cpc[c] # "idle"
  /\ cpc' = [cpc EXCEPT ![c] = "idle"]
  /\ mutexHandles' = mutexHandles \ {c}
  /\ stopHandles' = stopHandles \ {c}
  /\ UNCHANGED <<pc, signaled, stateFile, uncleared>>

-----------------------------------------------------------------------------
(* The steps a running watcher takes by itself. *)
RunWatcher(w) ==
  \/ CreateMutex(w) \/ CreateMutexFails(w) \/ Leave(w)
  \/ CreateStopEvent(w) \/ CreateStopEventFails(w)
  \/ WriteRunning(w)
  \/ WaitReturnsChange(w) \/ FinishRound(w) \/ WaitReturnsStop(w) \/ WaitFails(w)
  \/ CloseStopEvent(w) \/ CloseMutex(w) \/ WriteStopped(w)

ClientStep(c) ==
  \/ ProbeFindsMutex(c) \/ CloseProbe(c)
  \/ StartFindsNone(c) \/ SpawnFails(c) \/ \E w \in Watchers : Spawn(c, w)
  \/ OpenStopEvent(c) \/ SetStopEvent(c) \/ CloseRequest(c)
  \/ KillClient(c)

Next ==
  \/ \E w \in Watchers : RunWatcher(w) \/ Launch(w) \/ Kill(w)
  \/ \E c \in Clients : ClientStep(c)

Spec == Init /\ [][Next]_vars

(* A running process is scheduled: it takes its next step.  Nothing makes   *)
(* anybody start or stop a watcher, probe, or kill a process.               *)
FairSpec == Spec /\ \A w \in Watchers : WF_vars(RunWatcher(w))

-----------------------------------------------------------------------------
(* At most one process is between the creation and the closing of the mutex *)
(* (monitor.rs:87-139), whatever handles probes and losers have meanwhile.  *)
AtMostOneWatcher ==
  \A v, w \in Watchers : Active(v) /\ Active(w) => v = w

(* is_running answers false only when nobody watches, and request_stop      *)
(* says that there is no watcher only when none is in its loop: the two     *)
(* handles live as long as the loop does.                                   *)
AnswersAreHonest ==
  /\ mutexHandles = {} => \A w \in Watchers : ~Active(w)
  /\ stopHandles = {} => \A w \in Watchers : ~Watching(w)

(* When nobody watches, watcher.state says running=1 only if a watcher was  *)
(* killed, or its write of running=0 failed, after the last one that        *)
(* succeeded: whatever way out of the loop a watcher takes, and however     *)
(* several of them overlap, it gets to write_state(false) (monitor.rs:140). *)
(* (The file may say running=0 while a watcher runs: the ending one writes  *)
(* after it closed the mutex, monitor.rs:139-140.)                          *)
StateFileClearedAtEnd ==
  (\A w \in Watchers : pc[w] = "off") /\ ~uncleared => stateFile # "running=1"

(* A new watcher finds its stop event signaled only while a caller of       *)
(* request_stop still has a handle to it: the previous watcher closes the   *)
(* event before the mutex (monitor.rs:139), so it never carries its own     *)
(* stop over to its successor.                                              *)
StaleStopOnlyFromClient ==
  [][\A w \in Watchers :
       pc[w] = "owner" /\ pc'[w] = "setup" /\ signaled' =>
         \E c \in Clients : c \in stopHandles /\ cpc[c] \in {"opened", "set"}]_vars

(* A watcher in its loop whose stop event is signaled ends, even if         *)
(* registry changes never stop coming in: the event is manual-reset, its    *)
(* handle is first in the array and nobody resets it.                       *)
StopIsObeyed ==
  \A w \in Watchers : (Watching(w) /\ signaled) ~> (pc[w] = "off")

(* The watcher implements the single-instance role. *)
Role == INSTANCE SingleInstance WITH
  Processes <- Watchers, Nobody <- NoWatcher,
  holder <- IF \E w \in Watchers : Active(w)
              THEN CHOOSE w \in Watchers : Active(w) ELSE NoWatcher

ImplementsSingleInstance == Role!Spec
=============================================================================
