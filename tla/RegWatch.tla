------------------------------- MODULE RegWatch -------------------------------
(***************************************************************************)
(* What the watcher of src/src/monitor.rs watches: the list of registry    *)
(* watches that its loop waits for, re-arms and completes, and the files   *)
(* whose time stamps it polls.  How the loop is entered and left is the    *)
(* module Watcher.                                                         *)
(*                                                                         *)
(* A registry notification is good for one change: it signals the event of *)
(* the watch, which has to be re-armed with the same key handle.  A key    *)
(* that is deleted signals the event, too; its handle can never be armed   *)
(* again (ERROR_KEY_DELETED), not even when the key is created anew.       *)
(***************************************************************************)
EXTENDS Naturals, SequencesExt

CONSTANTS Targets,       \* the configured keys, in the order of the source
          Noisy,         \* the keys that may change without end
          Files,         \* the polled files
          RecheckEvery,  \* RECHECK_MISSING_EVERY_TICKS, 6 in the code
          MaxEdits,      \* changes, creations, deletions of other keys (a bound)
          MaxFailures    \* keys that cannot be opened for a time (a bound)

Keys == ToSet(Targets)

None == "none"

ASSUME RegWatchAssumption ==
  /\ Len(Targets) \in Nat
  /\ DOMAIN Targets = 1 .. Len(Targets)
  /\ IsInjective(Targets)
  /\ None \notin Keys
  /\ Noisy \subseteq Keys
  /\ RecheckEvery \in Nat \ {0}
  /\ MaxEdits \in Nat
  /\ MaxFailures \in Nat

VARIABLES
  exists,    \* the keys that there are
  watches,   \* the list of watches, by their label, which is the key
  armed,     \* watches whose notification is registered
  dead,      \* watches whose handle belongs to a deleted key
  event,     \* watches whose auto-reset event is signaled
  pending,   \* keys with a notified change that is not in the log
  changed,   \* files whose stamp differs from the stored one
  ticks,     \* recheck_ticks
  current,   \* the watch to be re-armed, if any
  edits,     \* the edits so far
  failures   \* the failures to open so far

vars == <<exists, watches, armed, dead, event, pending, changed, ticks,
          current, edits, failures>>
registry == <<exists, edits>>

Watched == ToSet(watches)

TypeOK ==
  /\ exists \subseteq Keys
  /\ watches \in Seq(Keys)
  /\ armed \subseteq Keys
  /\ dead \subseteq Keys
  /\ event \subseteq Keys
  /\ pending \subseteq Keys
  /\ changed \subseteq Files
  /\ ticks \in 0 .. RecheckEvery - 1
  /\ current \in Keys \cup {None}
  /\ edits \in 0 .. MaxEdits
  /\ failures \in 0 .. MaxFailures

Number(k) == CHOOSE i \in DOMAIN Targets : Targets[i] = k

(* ensure_all_reg_watches goes through the targets in their order: the list *)
(* of those keys of ks.                                                     *)
InOrder(ks) ==
  {s \in [1 .. Cardinality(ks) -> ks] :
     \A i, j \in DOMAIN s : i < j => Number(s[i]) < Number(s[j])}

Init ==
  /\ exists \in SUBSET Keys
  /\ watches \in InOrder(exists)
  /\ armed = exists
  /\ dead = {}
  /\ event = {}
  /\ pending = {}
  /\ changed = {}
  /\ ticks = 0
  /\ current = None
  /\ edits = 0
  /\ failures = 0

-----------------------------------------------------------------------------
(* The system. *)

Edit(k) ==
  \/ k \in Noisy /\ UNCHANGED edits
  \/ k \notin Noisy /\ edits < MaxEdits /\ edits' = edits + 1

(* The notification of the watch, if it is registered. *)
Notify(k) ==
  /\ armed' = armed \ {k}
  /\ event' = IF k \in armed THEN event \cup {k} ELSE event
  /\ pending' = IF k \in armed THEN pending \cup {k} ELSE pending

(* A value or a subkey of a key is written. *)
ChangeKey(k) ==
  /\ k \in exists \cap armed
  /\ Edit(k)
  /\ Notify(k)
  /\ UNCHANGED <<exists, watches, dead, changed, ticks, current, failures>>

DeleteKey(k) ==
  /\ k \in exists \ Noisy
  /\ Edit(k)
  /\ exists' = exists \ {k}
  /\ dead' = dead \cup ({k} \cap Watched)
  /\ Notify(k)
  /\ UNCHANGED <<watches, changed, ticks, current, failures>>

CreateKey(k) ==
  /\ k \notin exists
  /\ Edit(k)
  /\ exists' = exists \cup {k}
  /\ UNCHANGED <<watches, armed, dead, event, pending, changed, ticks,
                 current, failures>>

ChangeFile(f) ==
  /\ changed' = changed \cup {f}
  /\ UNCHANGED <<registry, watches, armed, dead, event, pending, ticks,
                 current, failures>>

-----------------------------------------------------------------------------
(* The loop.  poll_files logs every file whose stamp has changed and stores *)
(* the new one; it is called in each round.                                 *)

(* The wait times out: nothing is signaled. *)
TimeOut ==
  /\ current = None
  /\ event = {}
  /\ changed' = {}

(* Mutant: the ticks are reset by every timeout. *)
Tick_AlwaysReset ==
  /\ TimeOut
  /\ ticks + 1 < RecheckEvery
  /\ ticks' = 0
  /\ UNCHANGED <<registry, watches, armed, dead, event, pending, current, failures>>

(* A timeout between two rechecks; a change does not reset the count. *)
Tick ==
  /\ TimeOut
  /\ ticks + 1 < RecheckEvery
  /\ ticks' = ticks + 1
  /\ UNCHANGED <<registry, watches, armed, dead, event, pending, current, failures>>

(* Every RecheckEvery ticks, ensure_all_reg_watches: a watch is added for   *)
(* each missing key, unless it does not exist, cannot be opened, or gets no *)
(* event or no notification.                                                *)
Recheck ==
  /\ TimeOut
  /\ ticks + 1 >= RecheckEvery
  /\ ticks' = 0
  /\ \E failed \in SUBSET (exists \ Watched) :
       /\ failures + Cardinality(failed) <= MaxFailures
       /\ failures' = failures + Cardinality(failed)
       /\ \E added \in InOrder((exists \ failed) \ Watched) : watches' = watches \o added
       /\ armed' = armed \cup ((exists \ failed) \ Watched)
  /\ UNCHANGED <<registry, dead, event, pending, current>>

(* Mutant: the index counts the stop event, too. *)
TakeChange_NextWatch ==
  /\ current = None
  /\ \E i \in 1 .. Len(watches) :
       /\ watches[i] \in event
       /\ \A j \in 1 .. i - 1 : watches[j] \notin event
       /\ event' = event \ {watches[i]}
       /\ current' = IF i < Len(watches) THEN watches[i + 1] ELSE None
       /\ pending' = pending \ {current'}
  /\ UNCHANGED <<registry, watches, armed, dead, changed, ticks, failures>>

(* Mutant: index > 1 instead of index >= 1. *)
TakeChange_SkipsFirst ==
  /\ current = None
  /\ \E i \in 1 .. Len(watches) :
       /\ watches[i] \in event
       /\ \A j \in 1 .. i - 1 : watches[j] \notin event
       /\ event' = event \ {watches[i]}
       /\ current' = IF i > 1 THEN watches[i] ELSE None
       /\ pending' = pending \ {current'}
  /\ UNCHANGED <<registry, watches, armed, dead, changed, ticks, failures>>

(* WaitForMultipleObjects returns the lowest index that is signaled and     *)
(* resets its event; the change is logged.                                  *)
TakeChange ==
  /\ current = None
  /\ \E i \in 1 .. Len(watches) :
       /\ watches[i] \in event
       /\ \A j \in 1 .. i - 1 : watches[j] \notin event
       /\ event' = event \ {watches[i]}
       /\ current' = watches[i]
       /\ pending' = pending \ {watches[i]}
  /\ UNCHANGED <<registry, watches, armed, dead, changed, ticks, failures>>

(* arm_watch, whose result is ignored, and poll_files. *)
Rearm ==
  /\ current # None
  /\ armed' = armed \cup ({current} \ dead)
  /\ current' = None
  /\ changed' = {}
  /\ UNCHANGED <<registry, watches, dead, event, pending, ticks, failures>>

-----------------------------------------------------------------------------
Loop == Tick \/ Recheck \/ TakeChange \/ Rearm

Next ==
  \/ Loop
  \/ \E k \in Keys : ChangeKey(k) \/ DeleteKey(k) \/ CreateKey(k)
  \/ \E f \in Files : ChangeFile(f)

Spec == Init /\ [][Next]_vars

(* The watcher is scheduled.  Nothing is assumed of the system: its changes *)
(* may come faster than the waits time out.                                 *)
FairSpec == Spec /\ WF_vars(Loop)

-----------------------------------------------------------------------------
(* No label is twice in the list (monitor.rs:172): the handles of the 23    *)
(* targets and the stop event never exceed MAXIMUM_WAIT_OBJECTS (64), above *)
(* which every wait would fail and end the watcher.                         *)
OneWatchPerKey == IsInjective(watches)

(* A watch goes deaf only with the deletion of its key: as long as the key  *)
(* of its handle exists, it is armed, or its event is signaled, or it is    *)
(* the one that is being handled.                                           *)
NeverDeaf == \A k \in Watched \ dead : k \in armed \cup event \cup {current}

(* The wait times out again and again. *)
Pauses == []<><<Tick \/ Recheck>>_vars

(* README.md:42: a key that did not exist when the watcher started is added *)
(* to the live watch set without restarting, also when timeouts are never   *)
(* consecutive, but only if they do not cease.                              *)
CreatedKeyIsAdded ==
  Pauses => \A k \in Keys : k \in exists ~> (k \in Watched \/ k \notin exists)

(* Under the same condition every notified change gets into the log.        *)
ChangesAreLogged == Pauses => \A k \in Keys : k \in pending ~> k \notin pending

(* File changes are logged even if the waits never time out, because the    *)
(* files are polled after each registry change as well.                     *)
FileChangesAreLogged == \A f \in Files : f \in changed ~> f \notin changed

(* Together: nothing that was noticed stays out of the log.                 *)
EveryChangeIsLogged == ChangesAreLogged /\ FileChangesAreLogged

(* README.md:42, for a key that is created, deleted and created again:      *)
(* "retried periodically, so a policy/persistence key created later can be  *)
(* added to the live watch set".                                            *)
CreatedKeyIsHeard ==
  Pauses => \A k \in Keys :
    k \in exists ~> (k \in armed \cup event \cup {current} \/ k \notin exists)
=============================================================================
