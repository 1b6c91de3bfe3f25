---------------------------- MODULE WatcherProofs ----------------------------
(***************************************************************************)
(* Proofs about Watcher for every set of watcher processes and clients,    *)
(* and about SelfUpdate, which is Watcher with the updater and probing     *)
(* windows for its clients, for every number of polls.                     *)
(***************************************************************************)
EXTENDS SelfUpdate, TLAPS

(* Who has a handle to which kernel object is a function of where it is.    *)
HandlesFollowControl ==
  /\ \A w \in Watchers :
       /\ w \in mutexHandles <=> Active(w) \/ pc[w] = "leaving"
       /\ w \in stopHandles <=> pc[w] \in {"setup", "waiting", "busy", "stopping"}
  /\ \A c \in Clients :
       /\ c \in mutexHandles <=> cpc[c] = "probing"
       /\ c \in stopHandles <=> cpc[c] \in {"opened", "set"}

(* A state file that says running=1 has a process that will correct it, if  *)
(* none was killed and no write of running=0 has failed.                    *)
StateFileHasWriter ==
  stateFile = "running=1" /\ ~uncleared =>
    \E w \in Watchers :
      pc[w] \in {"waiting", "busy", "stopping", "unlocking", "ending"}

(* AtMostOneWatcher is not inductive by itself: CreateMutex keeps it only   *)
(* because an active watcher has a handle to the mutex.                     *)
IInv ==
  /\ TypeOK
  /\ HandlesFollowControl
  /\ AtMostOneWatcher
  /\ StateFileHasWriter

-----------------------------------------------------------------------------
(* Initially nobody runs and nobody has a handle (monitor.rs:84). *)
LEMMA InitIInv == Init => IInv
  BY WatcherAssumption
     DEF Init, IInv, TypeOK, HandlesFollowControl, AtMostOneWatcher,
         StateFileHasWriter, Active, WatcherPC, ClientPC

(* Every call of run_watcher and every kill keeps the invariant             *)
(* (monitor.rs:84-143).                                                     *)
LEMMA WatcherStepIInv ==
  ASSUME IInv, NEW w \in Watchers, RunWatcher(w) \/ Launch(w) \/ Kill(w)
  PROVE  IInv'
  <1> USE WatcherAssumption
          DEF IInv, TypeOK, HandlesFollowControl, AtMostOneWatcher,
              StateFileHasWriter, Active, WatcherPC, ClientPC
  <1>1. CASE Launch(w)               BY <1>1 DEF Launch
  <1>2. CASE CreateMutexFails(w)     BY <1>2 DEF CreateMutexFails
  <1>3. CASE CreateMutex(w)          BY <1>3 DEF CreateMutex
  <1>4. CASE Leave(w)                BY <1>4 DEF Leave
  <1>5. CASE CreateStopEvent(w)      BY <1>5 DEF CreateStopEvent
  <1>6. CASE CreateStopEventFails(w) BY <1>6 DEF CreateStopEventFails
  <1>7. CASE WriteRunning(w)         BY <1>7 DEF WriteRunning, FileAfterFailure
  <1>8. CASE WaitReturnsChange(w)    BY <1>8 DEF WaitReturnsChange
  <1>9. CASE FinishRound(w)          BY <1>9 DEF FinishRound, FileAfterFailure
  <1>10. CASE WaitReturnsStop(w)     BY <1>10 DEF WaitReturnsStop
  <1>11. CASE WaitFails(w)           BY <1>11 DEF WaitFails
  <1>12. CASE CloseStopEvent(w)      BY <1>12 DEF CloseStopEvent
  <1>13. CASE CloseMutex(w)          BY <1>13 DEF CloseMutex
  <1>14. CASE WriteStopped(w)        BY <1>14 DEF WriteStopped, FileAfterFailure
  <1>15. CASE Kill(w)                BY <1>15 DEF Kill, FileAfterFailure
  <1> QED BY <1>1, <1>2, <1>3, <1>4, <1>5, <1>6, <1>7, <1>8, <1>9, <1>10,
             <1>11, <1>12, <1>13, <1>14, <1>15 DEF RunWatcher

(* Every call of a client keeps the invariant (monitor.rs:56-82). *)
LEMMA ClientStepIInv ==
  ASSUME IInv, NEW c \in Clients, ClientStep(c)
  PROVE  IInv'
  <1> USE WatcherAssumption
          DEF IInv, TypeOK, HandlesFollowControl, AtMostOneWatcher,
              StateFileHasWriter, Active, WatcherPC, ClientPC
  <1>1. CASE ProbeFindsMutex(c) BY <1>1 DEF ProbeFindsMutex
  <1>2. CASE CloseProbe(c)      BY <1>2 DEF CloseProbe
  <1>3. CASE StartFindsNone(c)  BY <1>3 DEF StartFindsNone
  <1>4. CASE SpawnFails(c)      BY <1>4 DEF SpawnFails
  <1>5. CASE \E w \in Watchers : Spawn(c, w) BY <1>5 DEF Spawn
  <1>6. CASE OpenStopEvent(c)   BY <1>6 DEF OpenStopEvent
  <1>7. CASE SetStopEvent(c)    BY <1>7 DEF SetStopEvent
  <1>8. CASE CloseRequest(c)    BY <1>8 DEF CloseRequest
  <1>9. CASE KillClient(c)      BY <1>9 DEF KillClient
  <1> QED BY <1>1, <1>2, <1>3, <1>4, <1>5, <1>6, <1>7, <1>8, <1>9 DEF ClientStep

(* A step that changes nothing keeps it, too. *)
LEMMA StutterIInv == IInv /\ UNCHANGED vars => IInv'
  BY DEF IInv, vars, TypeOK, HandlesFollowControl, AtMostOneWatcher,
         StateFileHasWriter, Active

(* So does every step. *)
LEMMA NextIInv == IInv /\ [Next]_vars => IInv'
  BY WatcherStepIInv, ClientStepIInv, StutterIInv DEF Next

(* The invariant holds in every reachable state, whatever processes are     *)
(* killed and however probes, starts and stops interleave.                  *)
THEOREM InductiveInvariant == Spec => []IInv
  <1> QED BY InitIInv, NextIInv, PTL DEF Spec

-----------------------------------------------------------------------------
(* Every variable has its type in every reachable state. *)
THEOREM TypeCorrect == Spec => []TypeOK
  <1>1. IInv => TypeOK BY DEF IInv
  <1> QED BY InductiveInvariant, <1>1, PTL

(* At most one process watches, for any number of processes that are        *)
(* started in any way (README.md: "prevents duplicate watcher processes     *)
(* with a named mutex").                                                    *)
THEOREM SingleWatcher == Spec => []AtMostOneWatcher
  <1>1. IInv => AtMostOneWatcher BY DEF IInv
  <1> QED BY InductiveInvariant, <1>1, PTL

(* is_running and request_stop deny a watcher only when there is none. *)
THEOREM HonestAnswers == Spec => []AnswersAreHonest
  <1>1. IInv => AnswersAreHonest
    BY DEF IInv, HandlesFollowControl, AnswersAreHonest, Active, Watching
  <1> QED BY InductiveInvariant, <1>1, PTL

(* watcher.state does not say running=1 when nobody watches, unless a       *)
(* watcher was killed or its last write failed (monitor.rs:140, 245).       *)
THEOREM StateFileCleared == Spec => []StateFileClearedAtEnd
  <1>1. IInv => StateFileClearedAtEnd
    BY DEF IInv, StateFileHasWriter, StateFileClearedAtEnd
  <1> QED BY InductiveInvariant, <1>1, PTL

(* Only its own CreateEventW takes an owner to the making of its watches    *)
(* (monitor.rs:96).                                                         *)
LEMMA OwnerSetsUp ==
  ASSUME IInv, Next, NEW w \in Watchers, pc[w] = "owner", pc'[w] = "setup"
  PROVE  CreateStopEvent(w)
  <1>1. ~(\E c \in Clients : ClientStep(c))
    BY DEF ClientStep, ProbeFindsMutex, CloseProbe, StartFindsNone, SpawnFails,
           Spawn, OpenStopEvent, SetStopEvent, CloseRequest, KillClient,
           IInv, TypeOK
  <1>2. PICK v \in Watchers : RunWatcher(v) \/ Launch(v) \/ Kill(v)
    BY <1>1 DEF Next
  <1>3. v = w
    BY <1>2 DEF RunWatcher, Launch, Kill, CreateMutexFails, CreateMutex, Leave,
                CreateStopEvent, CreateStopEventFails, WriteRunning,
                WaitReturnsChange, FinishRound, WaitReturnsStop, WaitFails,
                CloseStopEvent, CloseMutex, WriteStopped, IInv, TypeOK
  <1> QED
    BY <1>2, <1>3 DEF RunWatcher, Launch, Kill, CreateMutexFails, CreateMutex,
                Leave, CreateStopEventFails, WriteRunning,
                WaitReturnsChange, FinishRound, WaitReturnsStop, WaitFails,
                CloseStopEvent, CloseMutex, WriteStopped, IInv, TypeOK

(* A watcher never inherits the stop of its predecessor from the            *)
(* predecessor itself, only from a client that is still in request_stop.    *)
THEOREM StaleStop == Spec => StaleStopOnlyFromClient
  <1> DEFINE Step == \A w \in Watchers :
        pc[w] = "owner" /\ pc'[w] = "setup" /\ signaled' =>
          \E c \in Clients : c \in stopHandles /\ cpc[c] \in {"opened", "set"}
  <1>1. IInv /\ [Next]_vars => [Step]_vars
    <2> SUFFICES ASSUME IInv, Next, NEW w \in Watchers,
                        pc[w] = "owner", pc'[w] = "setup", signaled'
                 PROVE  \E c \in Clients : c \in stopHandles /\ cpc[c] \in {"opened", "set"}
      OBVIOUS
    <2>1. CreateStopEvent(w)
      BY OwnerSetsUp
    <2>2. PICK h \in stopHandles : TRUE
      BY <2>1 DEF CreateStopEvent
    <2>3. h \notin Watchers
      BY <2>2 DEF IInv, HandlesFollowControl, AtMostOneWatcher, Active
    <2>4. h \in Clients
      BY <2>2, <2>3 DEF IInv, TypeOK
    <2> QED BY <2>2, <2>4 DEF IInv, HandlesFollowControl
  <1> QED BY InductiveInvariant, <1>1, PTL DEF Spec, StaleStopOnlyFromClient

-----------------------------------------------------------------------------
(* StopIsObeyed itself is about fairness.  What it rests on is not: the     *)
(* number of steps that a watcher has before it at most, once it is stopped. *)
TillEnd == [off |-> 0, ending |-> 1, unlocking |-> 2, stopping |-> 3, waiting |-> 4, busy |-> 5]

(* It is in its loop with the stop event signaled, or has left the loop.    *)
Stopped(w) ==
  \/ Watching(w) /\ signaled
  \/ pc[w] \in {"stopping", "unlocking", "ending"}

(* Nothing takes a stop back from a watcher, neither a change that is       *)
(* notified nor another process or window: each of its own steps takes it   *)
(* nearer to its end, and no other step takes it away from there            *)
(* (monitor.rs:101-140).                                                    *)
THEOREM StopIsNotLost == Spec =>
    [][\A w \in Watchers : Stopped(w) =>
         /\ Stopped(w)' \/ pc'[w] = "off"
         /\ TillEnd[pc'[w]] <= TillEnd[pc[w]]
         /\ RunWatcher(w) => TillEnd[pc'[w]] < TillEnd[pc[w]]]_vars
  <1> DEFINE Nearer(w) == /\ Stopped(w)' \/ pc'[w] = "off"
                          /\ TillEnd[pc'[w]] <= TillEnd[pc[w]]
                          /\ RunWatcher(w) => TillEnd[pc'[w]] < TillEnd[pc[w]]
  <1>1. ASSUME IInv, Next, NEW w \in Watchers, Stopped(w) PROVE Nearer(w)
    <2> USE WatcherAssumption
            DEF IInv, TypeOK, WatcherPC, ClientPC, HandlesFollowControl, AtMostOneWatcher,
                Active, Watching, Stopped, TillEnd
    <2>1. CASE RunWatcher(w) \/ Kill(w)
      BY <1>1, <2>1
         DEF RunWatcher, Kill, CreateMutexFails, CreateMutex, Leave,
             CreateStopEvent, CreateStopEventFails, WriteRunning,
             WaitReturnsChange, FinishRound, WaitReturnsStop, WaitFails,
             CloseStopEvent, CloseMutex, WriteStopped
    <2>2. CASE pc'[w] = pc[w] /\ (Watching(w) => signaled') /\ ~RunWatcher(w)
      BY <1>1, <2>2
    <2>3. ASSUME NEW v \in Watchers, v # w, RunWatcher(v) \/ Launch(v) \/ Kill(v)
          PROVE  pc'[w] = pc[w] /\ (Watching(w) => signaled')
      BY <1>1, <2>3
         DEF RunWatcher, Launch, Kill, CreateMutexFails, CreateMutex, Leave,
             CreateStopEvent, CreateStopEventFails, WriteRunning,
             WaitReturnsChange, FinishRound, WaitReturnsStop, WaitFails,
             CloseStopEvent, CloseMutex, WriteStopped
    <2>4. ASSUME NEW c \in Clients, ClientStep(c)
          PROVE  pc'[w] = pc[w] /\ (Watching(w) => signaled')
      BY <1>1, <2>4
         DEF ClientStep, ProbeFindsMutex, CloseProbe, StartFindsNone, SpawnFails,
             Spawn, OpenStopEvent, SetStopEvent, CloseRequest, KillClient
    <2>5. ~Launch(w)
      BY <1>1 DEF Launch
    <2> QED BY <1>1, <2>1, <2>2, <2>3, <2>4, <2>5 DEF Next
  <1>2. IInv /\ [Next]_vars => [\A w \in Watchers : Stopped(w) => Nearer(w)]_vars
    BY <1>1
  <1> QED BY InductiveInvariant, <1>2, PTL DEF Spec

-----------------------------------------------------------------------------
(* The process that has the role, as the refinement sees it. *)
Holder == IF \E w \in Watchers : Active(w)
            THEN CHOOSE w \in Watchers : Active(w) ELSE NoWatcher

(* With at most one active watcher the choice is determined. *)
LEMMA HolderIsActive ==
  ASSUME AtMostOneWatcher, NEW w \in Watchers, Active(w)
  PROVE  Holder = w
  BY DEF Holder, AtMostOneWatcher

(* A step in which nobody becomes or ceases to be active leaves the holder. *)
LEMMA HolderUnchanged ==
  ASSUME AtMostOneWatcher, AtMostOneWatcher',
         \A w \in Watchers : Active(w)' <=> Active(w)
  PROVE  Holder' = Holder
  <1>1. CASE \E w \in Watchers : Active(w)
    <2>1. PICK w \in Watchers : Active(w) BY <1>1
    <2>2. Holder = w BY <2>1, HolderIsActive
    <2>3. Holder' = w BY <2>1 DEF Holder, AtMostOneWatcher
    <2> QED BY <2>2, <2>3
  <1>2. CASE ~ \E w \in Watchers : Active(w)
    BY <1>2 DEF Holder
  <1> QED BY <1>1, <1>2

(* Every step of a watcher takes the free role, gives it up or leaves it:   *)
(* only CreateMutex takes it, only CloseMutex, a failed CreateEventW and    *)
(* the end of the process give it up (monitor.rs:87-93, 139).               *)
LEMMA WatcherStepRefines ==
  ASSUME IInv, IInv', NEW w \in Watchers, RunWatcher(w) \/ Launch(w) \/ Kill(w)
  PROVE  Role!Next \/ Holder' = Holder
  <1> USE DEF IInv, TypeOK
  <1>1. CASE CreateMutex(w) /\ mutexHandles = {}
    <2>1. \A v \in Watchers : ~Active(v)
      BY <1>1 DEF HandlesFollowControl
    <2>2. Holder = NoWatcher BY <2>1 DEF Holder
    <2>3. Active(w)' BY <1>1 DEF CreateMutex, Active
    <2>4. Holder' = w BY <2>3 DEF Holder, AtMostOneWatcher
    <2>5. Role!Take(w) BY <2>2, <2>4 DEF Role!Take, Holder
    <2> QED BY <2>5 DEF Role!Next
  <1>2. CASE Active(w) /\ ~Active(w)'
    <2>1. Holder = w BY <1>2, HolderIsActive
    <2>2. \A v \in Watchers : ~Active(v)'
      <3>1. SUFFICES ASSUME NEW v \in Watchers, Active(v)', v # w PROVE FALSE
        BY <1>2
      <3>2. ~CreateMutex(w)
        BY <1>2 DEF CreateMutex, Active
      <3>3. Active(v)
        BY <3>1, <3>2 DEF Active, RunWatcher, Launch, Kill, CreateMutexFails,
             Leave, CreateStopEvent, CreateStopEventFails, WriteRunning,
             WaitReturnsChange, FinishRound, WaitReturnsStop, WaitFails,
             CloseStopEvent, CloseMutex, WriteStopped
      <3> QED BY <1>2, <3>1, <3>3 DEF AtMostOneWatcher
    <2>3. Holder' = NoWatcher BY <2>2 DEF Holder
    <2>4. Role!Release BY <2>1, <2>3, WatcherAssumption DEF Role!Release, Holder
    <2> QED BY <2>4 DEF Role!Next
  <1>3. CASE ~(CreateMutex(w) /\ mutexHandles = {}) /\ ~(Active(w) /\ ~Active(w)')
    <2>1. \A v \in Watchers : Active(v)' <=> Active(v)
      BY <1>3 DEF Active, RunWatcher, Launch, Kill, CreateMutexFails, CreateMutex,
           Leave, CreateStopEvent, CreateStopEventFails, WriteRunning,
           WaitReturnsChange, FinishRound, WaitReturnsStop, WaitFails,
           CloseStopEvent, CloseMutex, WriteStopped
    <2> QED BY <2>1, HolderUnchanged
  <1> QED BY <1>1, <1>2, <1>3

(* A client never changes who watches. *)
LEMMA ClientStepRefines ==
  ASSUME IInv, IInv', NEW c \in Clients, ClientStep(c)
  PROVE  Holder' = Holder
  <1>1. \A v \in Watchers : Active(v)' <=> Active(v)
    BY DEF IInv, TypeOK, Active, ClientStep, ProbeFindsMutex, CloseProbe,
           StartFindsNone, SpawnFails, Spawn, OpenStopEvent, SetStopEvent,
           CloseRequest, KillClient
  <1> QED BY <1>1, HolderUnchanged DEF IInv

(* The watcher and its clients implement the single-instance role, for any  *)
(* number of them: the role is only ever taken when it is free.             *)
THEOREM RefinesSingleInstance == Spec => ImplementsSingleInstance
  <1>1. Init => Role!Init
    BY DEF Init, Role!Init, Active
  <1>2. IInv /\ IInv' /\ [Next]_vars => Role!Next \/ Holder' = Holder
    <2>1. ASSUME IInv, IInv', UNCHANGED vars PROVE Holder' = Holder
      BY <2>1, HolderUnchanged DEF vars, IInv, Active
    <2> QED BY <2>1, WatcherStepRefines, ClientStepRefines DEF Next
  <1>3. IInv /\ IInv' /\ [Next]_vars => [Role!Next]_Holder
    BY <1>2
  <1> QED BY <1>1, <1>3, InductiveInvariant, PTL
          DEF Spec, ImplementsSingleInstance, Role!Spec, Holder
-----------------------------------------------------------------------------
(* SelfUpdate: Watcher with the updater, windows that probe, and the helper.*)

(* The update has not started a watcher again: the updater is at work, or   *)
(* the helper, which is only there when the updater could launch it.        *)
BeforeRestart == upc # "exited" \/ hpc \in {"waiting", "replacing", "restarting"}

(* Where the updater is in its calls to monitor.rs; others probe at most.   *)
UpdaterCalls ==
  /\ \A c \in Clients : c # Updater => cpc[c] \in {"idle", "probing"}
  /\ cpc[Updater] =
       CASE upc \in {"probing", "polling", "starting"} -> "probing"
         [] upc = "opened" -> "opened"
         [] upc = "set" -> "set"
         [] upc = "spawn" -> "spawning"
         [] OTHER -> "idle"

(* What the updater knows at each of its steps (self_update.rs:189-225). *)
UpdaterKnows ==
  /\ upc \in {"checking", "probe"} => ~wasRunning
  /\ upc \in {"probing", "stop", "opened", "set", "poll", "polling"} => wasRunning
  /\ upc = "polling" => polls < MaxPolls
  /\ hpc # "off" => upc = "exited"

(* Until the restart there is one watcher process at most, and when one was *)
(* found it is beyond the creation of its mutex: no later one can start.    *)
OneProcess ==
  BeforeRestart =>
    /\ \A v, w \in Watchers : pc[v] # "off" /\ pc[w] # "off" => v = w
    /\ wasRunning => \A w \in Watchers : pc[w] # "starting"

(* Before the updater looks, nothing has stopped the watcher, so whoever    *)
(* finds the mutex, and be it by the handle of a probe, finds a watcher.    *)
NothingStopsBefore ==
  upc \in {"checking", "probe"} =>
    /\ ~signaled
    /\ \A w \in Watchers : pc[w] \in {"off", "starting", "owner", "setup", "waiting", "busy"}
    /\ mutexHandles # {} => \E w \in Watchers : Active(w)

(* A watcher that was seen to be gone stays gone until the restart. *)
GoneForGood ==
  /\ wasRunning /\ SawWatcherGone
  /\ upc = "launch" \/ hpc \in {"waiting", "replacing", "restarting"}
  => \A w \in Watchers : ~Active(w)

(* A watcher that is about to create its stop event will not find one that  *)
(* is signaled.                                                             *)
StopIsSpent ==
  \A w \in Watchers : pc[w] = "owner" =>
    /\ upc \notin {"opened", "set"}
    /\ signaled => stopHandles = {}

SelfIInv ==
  /\ IInv
  /\ SelfTypeOK
  /\ UpdaterCalls
  /\ UpdaterKnows
  /\ OneProcess
  /\ NothingStopsBefore
  /\ GoneForGood
  /\ StopIsSpent

(* The installation starts with nobody watching and nothing known. *)
LEMMA InitSelfIInv == SelfInit => SelfIInv
  <1> SUFFICES ASSUME SelfInit PROVE SelfIInv
    OBVIOUS
  <1>1. IInv
    BY InitIInv DEF SelfInit
  <1>2. SelfTypeOK
    <2>1. TypeOK
      BY <1>1 DEF IInv
    <2>2. upc \in UpdaterPC /\ polls \in 0 .. MaxPolls /\ hpc \in HelperPC
      BY SelfUpdateAssumption DEF SelfInit, UpdaterPC, HelperPC
    <2>3. wasRunning \in BOOLEAN /\ target \in BOOLEAN /\ thwarted \in BOOLEAN
      BY Zenon DEF SelfInit
    <2> QED BY <2>1, <2>2, <2>3 DEF SelfTypeOK
  <1>3. UpdaterCalls /\ UpdaterKnows /\ OneProcess /\ NothingStopsBefore /\ GoneForGood
        /\ StopIsSpent
    BY SelfUpdateAssumption
       DEF SelfInit, Init, UpdaterCalls, UpdaterKnows, OneProcess, BeforeRestart,
           NothingStopsBefore, GoneForGood, StopIsSpent
  <1> QED BY <1>1, <1>2, <1>3 DEF SelfIInv

(* Every step of the update that touches the watcher's objects is a step of *)
(* Watcher: the updater is one of its clients, the helper launches.         *)
LEMMA SelfStepIsWatcherStep == SelfNext => [Next]_vars
  <1> SUFFICES ASSUME SelfNext PROVE Next \/ UNCHANGED vars
    OBVIOUS
  <1>1. CASE FirstLaunch
    BY <1>1 DEF FirstLaunch, Next
  <1>2. ASSUME NEW w \in Watchers, WatcherGoesOn(w) PROVE Next
    BY <1>2 DEF WatcherGoesOn, WatcherStarts, WatcherRuns, WatcherFails, RunWatcher, Next
  <1>5. ASSUME NEW c \in Clients, Probe(c) PROVE Next
    BY <1>5 DEF Probe, ClientStep, Next
  <1>3. CASE UpdaterStep
    <2>1. ClientStep(Updater) => Next
      BY SelfUpdateAssumption DEF Next
    <2>2. ClientStep(Updater) \/ UNCHANGED vars
      BY <1>3 DEF UpdaterStep, PackageReady, NoUpdate, FindWatcher, FindNoWatcher,
           EndProbe, StopWatcher, WatcherGone, WatcherStillThere, GiveUpWaiting,
           LaunchHelper, LaunchFails, StartAgain, ClientStep
    <2> QED BY <2>1, <2>2
  <1>4. CASE HelperStep
    BY <1>4 DEF HelperStep, UpdaterHasExited, HelperGivesUp, Replace, Restart, Next
  <1> QED BY <1>1, <1>2, <1>3, <1>4, <1>5 DEF SelfNext

(* The types: the counter of the polls is the only one with a bound. *)
LEMMA SelfStepType == SelfIInv /\ SelfNext => IInv' /\ SelfTypeOK'
  <1> SUFFICES ASSUME SelfIInv, SelfNext PROVE IInv' /\ SelfTypeOK'
    OBVIOUS
  <1>1. IInv'
    BY SelfStepIsWatcherStep, NextIInv DEF SelfIInv
  <1>2. TypeOK'
    BY <1>1 DEF IInv
  <1> USE SelfUpdateAssumption DEF SelfIInv, SelfTypeOK, UpdaterPC, HelperPC
  <1>3. upc' \in UpdaterPC /\ polls' \in 0 .. MaxPolls /\ wasRunning' \in BOOLEAN
        /\ hpc' \in HelperPC /\ target' \in BOOLEAN
    <2>1. CASE \/ FirstLaunch
               \/ \E w \in Watchers : WatcherGoesOn(w)
               \/ \E c \in Clients : Probe(c)
      BY <2>1 DEF FirstLaunch, WatcherGoesOn, WatcherStarts, WatcherRuns, WatcherFails,
           Probe, selfVars
    <2>2. CASE UpdaterStep
      <3> USE <2>2 DEF UpdaterStep, PackageReady, NoUpdate, FindWatcher,
           FindNoWatcher, EndProbe, StopWatcher, WatcherGone, WatcherStillThere,
           GiveUpWaiting, LaunchHelper, LaunchFails, StartAgain
      <3>1. upc' \in UpdaterPC /\ hpc' \in HelperPC
        OBVIOUS
      <3>2. polls' = polls \/ (polls < MaxPolls /\ polls' = polls + 1)
        BY DEF UpdaterKnows
      <3>3. polls' \in 0 .. MaxPolls
        BY <3>2
      <3>4. wasRunning' \in {wasRunning, TRUE} /\ target' = target
        OBVIOUS
      <3> QED BY <3>1, <3>3, <3>4
    <2>3. CASE HelperStep
      BY <2>3 DEF HelperStep, UpdaterHasExited, HelperGivesUp, Replace, Restart
    <2> QED BY <2>1, <2>2, <2>3 DEF SelfNext
  <1>4. thwarted' \in BOOLEAN
    <2>1. thwarted' \in {thwarted, TRUE, thwarted \/ KeptByProbe}
      BY Zenon DEF SelfNext, FirstLaunch, WatcherGoesOn, WatcherStarts, WatcherRuns,
           WatcherFails, Probe, selfVars, HelperStep, UpdaterHasExited, HelperGivesUp,
           Replace, Restart, UpdaterStep, PackageReady, NoUpdate, FindWatcher,
           FindNoWatcher, EndProbe, StopWatcher, WatcherGone, WatcherStillThere,
           GiveUpWaiting, LaunchHelper, LaunchFails, StartAgain
    <2> QED BY <2>1, Zenon
  <1> QED BY <1>1, <1>2, <1>3, <1>4

(* A watcher that is started or goes on: its mutex is created only before   *)
(* the updater has found one, or after the restart.                         *)
LEMMA WatcherKeepsSelf ==
  ASSUME SelfIInv, FirstLaunch \/ \E w \in Watchers : WatcherGoesOn(w)
  PROVE  /\ UpdaterCalls' /\ UpdaterKnows' /\ OneProcess' /\ NothingStopsBefore'
         /\ GoneForGood' /\ StopIsSpent'
  <1>1. UNCHANGED <<upc, polls, wasRunning, hpc>> /\ UNCHANGED cpc
    BY DEF FirstLaunch, Launch, WatcherGoesOn, WatcherStarts, WatcherRuns, WatcherFails,
           CreateMutex, Leave, CreateStopEvent, WriteRunning, WaitReturnsChange,
           FinishRound, WaitReturnsStop, CloseStopEvent, CloseMutex, WriteStopped,
           CreateMutexFails, CreateStopEventFails, WaitFails, selfVars
  <1>2. UpdaterCalls' /\ UpdaterKnows'
    BY <1>1 DEF SelfIInv, UpdaterCalls, UpdaterKnows
  <1> USE DEF SelfIInv, IInv, TypeOK, SelfTypeOK, WatcherPC
  <1>3. CASE FirstLaunch
    <2>1. PICK w \in Watchers : Launch(w)
      BY <1>3 DEF FirstLaunch
    <2>2. \A v \in Watchers : pc'[v] = IF v = w THEN "starting" ELSE "off"
      BY <1>3, <2>1 DEF FirstLaunch, Launch
    <2>3. ~wasRunning'
      BY <1>1, <1>3 DEF FirstLaunch, UpdaterKnows
    <2> QED
      BY <1>2, <1>3, <2>1, <2>2, <2>3
         DEF OneProcess, NothingStopsBefore, GoneForGood, StopIsSpent, Active, Launch,
             FirstLaunch
  <1>4. ASSUME NEW w \in Watchers, WatcherGoesOn(w)
        PROVE  OneProcess' /\ NothingStopsBefore' /\ GoneForGood' /\ StopIsSpent'
    <2>1. /\ pc[w] # "off"
          /\ \A v \in Watchers : v # w => pc'[v] = pc[v]
          /\ pc'[w] # "starting"
          /\ Active(w)' => Active(w) \/ pc[w] = "starting"
      BY <1>4 DEF WatcherGoesOn, WatcherStarts, WatcherRuns, WatcherFails, CreateMutex,
           Leave, CreateStopEvent, WriteRunning, WaitReturnsChange, FinishRound,
           WaitReturnsStop, CloseStopEvent, CloseMutex, WriteStopped, CreateMutexFails,
           CreateStopEventFails, WaitFails, Active
    <2>2. OneProcess'
      BY <1>1, <2>1 DEF OneProcess, BeforeRestart
    <2>3. GoneForGood'
      BY <1>1, <2>1 DEF OneProcess, BeforeRestart, GoneForGood, SawWatcherGone,
           Active
    <2>4. StopIsSpent'
      <3>1. CASE CreateMutex(w)
        <4> SUFFICES ASSUME NEW v \in Watchers, pc'[v] = "owner"
                     PROVE  upc \notin {"opened", "set"} /\ (signaled => stopHandles = {})
          BY <1>1, <3>1 DEF StopIsSpent, CreateMutex
        <4>1. CASE v # w
          BY <2>1, <4>1 DEF StopIsSpent
        <4>2. CASE v = w
          <5>1. mutexHandles = {}
            BY <3>1, <4>2 DEF CreateMutex
          <5>2. upc \notin {"opened", "set"}
            BY <3>1 DEF CreateMutex, OneProcess, BeforeRestart, UpdaterKnows
          <5>3. stopHandles = {}
            BY <5>1, <5>2 DEF HandlesFollowControl, Active, UpdaterCalls
          <5> QED BY <5>2, <5>3
        <4> QED BY <4>1, <4>2
      <3>2. CASE CreateStopEvent(w)
        <4>1. \A v \in Watchers : pc'[v] # "owner"
          BY <3>2 DEF CreateStopEvent, AtMostOneWatcher, Active
        <4> QED BY <4>1 DEF StopIsSpent
      <3>3. CASE ~CreateMutex(w) /\ ~CreateStopEvent(w)
        <4>1. pc'[w] # "owner" /\ stopHandles' \subseteq stopHandles /\ signaled' = signaled
          BY <1>4, <3>3 DEF WatcherGoesOn, WatcherStarts, WatcherRuns, WatcherFails, Leave,
               WriteRunning, WaitReturnsChange, FinishRound, WaitReturnsStop,
               CloseStopEvent, CloseMutex, WriteStopped, CreateMutexFails,
               CreateStopEventFails, WaitFails
        <4> QED BY <1>1, <2>1, <4>1 DEF StopIsSpent
      <3> QED BY <3>1, <3>2, <3>3
    <2>5. NothingStopsBefore'
      <3> SUFFICES ASSUME upc \in {"checking", "probe"} PROVE NothingStopsBefore'
        BY <1>1 DEF NothingStopsBefore
      <3>1. ~UpdateOver
        BY DEF UpdateOver
      <3>2. CASE CreateMutex(w)
        BY <2>1, <3>2 DEF CreateMutex, NothingStopsBefore, OneProcess, BeforeRestart, Active
      <3>3. CASE CreateStopEvent(w) \/ WriteRunning(w) \/ WaitReturnsChange(w) \/ FinishRound(w)
        BY <3>3 DEF CreateStopEvent, WriteRunning, WaitReturnsChange, FinishRound,
             NothingStopsBefore, Active
      <3>4. ~(Leave(w) \/ WaitReturnsStop(w) \/ CloseStopEvent(w) \/ CloseMutex(w)
              \/ WriteStopped(w))
        BY DEF Leave, WaitReturnsStop, CloseStopEvent, CloseMutex, WriteStopped,
               NothingStopsBefore
      <3> QED BY <1>4, <3>1, <3>2, <3>3, <3>4
              DEF WatcherGoesOn, WatcherStarts, WatcherRuns, WatcherFails
    <2> QED BY <2>2, <2>3, <2>4, <2>5
  <1> QED BY <1>2, <1>3, <1>4

(* A window that probes takes and closes a handle of the mutex and nothing  *)
(* else; it finds one only where there is one already (main.rs:299).        *)
LEMMA ProbeKeepsSelf ==
  ASSUME SelfIInv, NEW c \in Clients, Probe(c)
  PROVE  /\ UpdaterCalls' /\ UpdaterKnows' /\ OneProcess' /\ NothingStopsBefore'
         /\ GoneForGood' /\ StopIsSpent'
  <1> USE SelfUpdateAssumption DEF SelfIInv, IInv, TypeOK
  <1>1. /\ UNCHANGED selfVars
        /\ UNCHANGED <<pc, stopHandles, signaled>>
        /\ mutexHandles' # {} => mutexHandles # {}
        /\ c # Updater
        /\ \A d \in Clients : d # c => cpc'[d] = cpc[d]
        /\ cpc'[c] \in {"idle", "probing"}
    BY DEF Probe, ProbeFindsMutex, CloseProbe
  <1> QED
    BY <1>1 DEF UpdaterCalls, UpdaterKnows, OneProcess, BeforeRestart, NothingStopsBefore,
         GoneForGood, StopIsSpent, SawWatcherGone, Active, selfVars


(* The updater: it opens the stop event only of a watcher that has got past *)
(* its creation, and sees it gone only when no process has the mutex.       *)
LEMMA UpdaterKeepsSelf ==
  ASSUME SelfIInv, UpdaterStep
  PROVE  /\ UpdaterCalls' /\ UpdaterKnows' /\ OneProcess' /\ NothingStopsBefore'
         /\ GoneForGood' /\ StopIsSpent'
  <1> USE SelfUpdateAssumption
          DEF SelfIInv, IInv, TypeOK, SelfTypeOK, WatcherPC, UpdaterPC, HelperPC,
              UpdaterCalls, UpdaterKnows, OneProcess, BeforeRestart, NothingStopsBefore,
              GoneForGood, StopIsSpent, SawWatcherGone, Active, vars
  <1>1. CASE PackageReady       BY <1>1 DEF PackageReady
  <1>2. CASE NoUpdate           BY <1>2 DEF NoUpdate
  <1>3. CASE FindWatcher
    <2>1. \A w \in Watchers : pc[w] # "starting"
      <3>1. PICK v \in Watchers : Active(v)
        BY <1>3 DEF FindWatcher, ProbeFindsMutex
      <3>2. \A w \in Watchers : pc[w] # "off" => w = v
        BY <1>3, <3>1 DEF FindWatcher
      <3> QED BY <3>1, <3>2
    <2> QED BY <1>3, <2>1 DEF FindWatcher, ProbeFindsMutex
  <1>4. CASE FindNoWatcher      BY <1>4 DEF FindNoWatcher
  <1>5. CASE EndProbe           BY <1>5 DEF EndProbe, CloseProbe
  <1>6. CASE StopWatcher
    <2>1. CASE upc = "stop" /\ OpenStopEvent(Updater) /\ upc' = "opened"
      <3>1. PICK h \in stopHandles : TRUE
        BY <2>1 DEF OpenStopEvent
      <3>2. h \in Watchers /\ Active(h) /\ pc[h] # "owner"
        BY <2>1, <3>1 DEF OpenStopEvent, HandlesFollowControl
      <3>3. \A w \in Watchers : pc[w] # "owner"
        BY <3>2 DEF AtMostOneWatcher
      <3> QED BY <1>6, <2>1, <3>3 DEF StopWatcher, OpenStopEvent
    <2>2. CASE upc = "stop" /\ upc' = "poll"
      BY <1>6, <2>2 DEF StopWatcher
    <2>3. CASE upc = "opened"
      BY <1>6, <2>3 DEF StopWatcher, SetStopEvent
    <2>4. CASE upc = "set"
      BY <1>6, <2>4 DEF StopWatcher, CloseRequest
    <2> QED BY <1>6, <2>1, <2>2, <2>3, <2>4 DEF StopWatcher
  <1>7. CASE WatcherGone
    BY <1>7 DEF WatcherGone, HandlesFollowControl
  <1>8. CASE WatcherStillThere
    BY <1>8 DEF WatcherStillThere, ProbeFindsMutex, CloseProbe
  <1>9. CASE GiveUpWaiting      BY <1>9 DEF GiveUpWaiting
  <1>10. CASE LaunchHelper      BY <1>10 DEF LaunchHelper
  <1>11. CASE LaunchFails       BY <1>11 DEF LaunchFails
  <1>12. CASE StartAgain
    <2>1. UpdaterCalls' /\ UpdaterKnows' /\ GoneForGood' /\ NothingStopsBefore'
      BY <1>12 DEF StartAgain, ProbeFindsMutex, CloseProbe, StartFindsNone, Spawn, SpawnFails
    <2>2. OneProcess' /\ StopIsSpent'
      BY <1>12 DEF StartAgain, ProbeFindsMutex, CloseProbe, StartFindsNone, Spawn, SpawnFails
    <2> QED BY <2>1, <2>2
  <1> QED BY <1>1, <1>2, <1>3, <1>4, <1>5, <1>6, <1>7, <1>8, <1>9, <1>10, <1>11,
             <1>12 DEF UpdaterStep

(* The helper changes nothing that the watcher sees before its last step,   *)
(* which ends the time before the restart.                                  *)
LEMMA HelperKeepsSelf ==
  ASSUME SelfIInv, HelperStep
  PROVE  /\ UpdaterCalls' /\ UpdaterKnows' /\ OneProcess' /\ NothingStopsBefore'
         /\ GoneForGood' /\ StopIsSpent'
  <1> USE SelfUpdateAssumption
          DEF SelfIInv, IInv, TypeOK, SelfTypeOK, WatcherPC, UpdaterPC, HelperPC,
              UpdaterCalls, UpdaterKnows, OneProcess, BeforeRestart, NothingStopsBefore,
              GoneForGood, StopIsSpent, SawWatcherGone, Active, vars
  <1>1. CASE UpdaterHasExited  BY <1>1 DEF UpdaterHasExited
  <1>2. CASE Replace           BY <1>2 DEF Replace
  <1>3. CASE Restart           BY <1>3 DEF Restart, Launch
  <1>4. CASE HelperGivesUp     BY <1>4 DEF HelperGivesUp
  <1> QED BY <1>1, <1>2, <1>3, <1>4 DEF HelperStep

(* Every step of the updater, the helper and the watchers keeps it. *)
LEMMA SelfNextIInv == SelfIInv /\ [SelfNext]_allVars => SelfIInv'
  <1>1. SelfIInv /\ SelfNext => SelfIInv'
    BY SelfStepType, WatcherKeepsSelf, ProbeKeepsSelf, UpdaterKeepsSelf, HelperKeepsSelf
       DEF SelfNext, SelfIInv
  <1>2. SelfIInv /\ UNCHANGED allVars => SelfIInv'
    BY StutterIInv
       DEF SelfIInv, allVars, vars, selfVars, SelfTypeOK, TypeOK, UpdaterCalls,
           UpdaterKnows, OneProcess, BeforeRestart, NothingStopsBefore, GoneForGood,
           StopIsSpent, SawWatcherGone, Active
  <1> QED BY <1>1, <1>2

(* The invariant holds throughout one update. *)
THEOREM SelfInductiveInvariant == SelfSpec => []SelfIInv
  BY InitSelfIInv, SelfNextIInv, PTL DEF SelfSpec

-----------------------------------------------------------------------------
(* An update is one of the ways in which Watcher runs, so what is proved of *)
(* Watcher (one watcher at most, honest answers) holds throughout it.       *)
THEOREM UpdateImplementsWatcher == SelfSpec => Spec
  <1>1. SelfInit => Init
    BY DEF SelfInit
  <1>2. [SelfNext]_allVars => [Next]_vars
    BY SelfStepIsWatcherStep DEF allVars
  <1> QED BY <1>1, <1>2, PTL DEF SelfSpec, Spec

(* The variables of the updater and the helper keep their types, and it     *)
(* never polls more often than it may (self_update.rs:200-206).             *)
THEOREM SelfTypeCorrect == SelfSpec => []SelfTypeOK
  <1>1. SelfIInv => SelfTypeOK BY DEF SelfIInv
  <1> QED BY SelfInductiveInvariant, <1>1, PTL

(* While the helper replaces the executable no watcher is in its loop, if   *)
(* the updater found one and saw it end (self_update.rs:195-206).           *)
THEOREM NoWatcherDuringReplacement == SelfSpec => []WatcherStoppedFirst
  <1>1. SelfIInv => WatcherStoppedFirst
    BY DEF SelfIInv, GoneForGood, WatcherStoppedFirst, Somebody, Watching, Active
  <1> QED BY SelfInductiveInvariant, <1>1, PTL

(* The stop request of the updater does not reach the watcher after the     *)
(* update (monitor.rs:96, self_update.rs:199).                              *)
THEOREM StopIsNotInherited == SelfSpec => StopNotCarriedOver
  <1> DEFINE Step == \A w \in Watchers : pc[w] = "owner" /\ pc'[w] = "setup" => ~signaled'
  <1>1. SelfIInv /\ [SelfNext]_allVars => [Step]_allVars
    <2> SUFFICES ASSUME SelfIInv, SelfNext, NEW w \in Watchers,
                        pc[w] = "owner", pc'[w] = "setup"
                 PROVE  ~signaled'
      OBVIOUS
    <2>1. CreateStopEvent(w)
      BY SelfStepIsWatcherStep, OwnerSetsUp DEF vars, SelfIInv
    <2> QED BY <2>1 DEF CreateStopEvent, SelfIInv, StopIsSpent
  <1> QED BY SelfInductiveInvariant, <1>1, PTL DEF SelfSpec, StopNotCarriedOver
=============================================================================
