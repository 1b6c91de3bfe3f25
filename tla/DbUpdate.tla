------------------------------ MODULE DbUpdate ------------------------------
(***************************************************************************)
(* update_all of src/src/data_update.rs: the processes that update the     *)
(* databases (the window's button, the scheduled task) exclude each other  *)
(* by a named mutex; the one that created it goes through the sources in a *)
(* fixed order and keeps an index file and a time stamp for each.          *)
(*                                                                         *)
(* A source is refreshed when it is forced, has no index, or is due.  The  *)
(* stamp of a source is its own file; a public or keyed source without one *)
(* falls back to the last-update.txt its directory shares.  A process may  *)
(* be killed between any two steps, the files stay as they are.            *)
(*                                                                         *)
(* The public, keyed, regional and ClamAV sources have directories of      *)
(* their own and share no file, so one directory is followed at a time.    *)
(* The rules, which come first in update_all, are RulesUpdate.  Hours do   *)
(* not pass between the installation of an index and its stamp.            *)
(***************************************************************************)
EXTENDS Integers, Sequences, FiniteSets

CONSTANTS
  Procs,        \* processes that call update_all
  PublicOrder,  \* FEEDS of intel.rs, in their order
  Interval,     \* after which time a source is due
  MaxClock      \* bound of the clock

Public == {PublicOrder[i] : i \in DOMAIN PublicOrder}
Keyed == {"threatfox", "urlhaus"}
Feeds == Public \cup Keyed \cup {"youslist"}      \* sources with an index
Sources == Feeds \cup {"clamav"}
Clock == 0 .. MaxClock
NoTime == -1

(* What update_all does with the sources of a directory, in order. *)
Order ==
  [public |-> PublicOrder \o <<"public end">>,
   keyed |-> <<"threatfox", "urlhaus", "keyed end", "compat">>,
   regional |-> <<"youslist">>,
   clamav |-> <<"clamav">>]

ASSUME DbUpdateAssumption ==
  /\ PublicOrder \in Seq(STRING)
  /\ Public \cap (Keyed \cup {"youslist", "clamav", "public end", "keyed end", "compat", "end"}) = {}
  /\ Interval \in [Sources -> Nat \ {0}]
  /\ MaxClock \in Nat

VARIABLES
  dir,        \* the directory that is followed
  handles,    \* processes with a handle of the mutex
  role,       \* what each process is: outside, refused, or the owner
  run,        \* the owner's progress
  index,      \* feeds with an installed index
  own,        \* the stamp of each source
  shared,     \* last-update.txt of the public or keyed directory
  clock,
  steady,     \* history: the clock was never set back; the others end with it
  fetched,    \* history: when each source was last installed
  owed        \* history: sources whose last refresh was due and failed

files == <<index, own, shared>>
history == <<steady, fetched, owed>>
vars == <<dir, handles, role, run, files, clock, history>>

Plan == Order[dir]
Ours == {Plan[i] : i \in DOMAIN Plan} \cap Sources

Runs == [at : Nat \ {0},
         phase : {"decide", "replacing", "mark"},
         force : BOOLEAN,     \* force_public_intel
         key : BOOLEAN,       \* there is an abuse.ch key
         saved : BOOLEAN,     \* replace_file moved an index away
         allOk : BOOLEAN,     \* all_ok of the public sources
         anySuccess : BOOLEAN, \* any_success of the keyed sources
         primaryFailed : BOOLEAN] \* primary_threatfox_failed

NoRun == [at |-> 1, phase |-> "decide", force |-> FALSE, key |-> FALSE,
          saved |-> FALSE, allOk |-> TRUE, anySuccess |-> FALSE, primaryFailed |-> FALSE]

TypeOK ==
  /\ dir \in DOMAIN Order
  /\ handles \in SUBSET Procs
  /\ role \in [Procs -> {"out", "refused", "owner"}]
  /\ run \in Runs
  /\ index \in SUBSET Feeds
  /\ own \in [Sources -> Clock \cup {NoTime}]
  /\ shared \in Clock \cup {NoTime}
  /\ clock \in Clock
  /\ fetched \in [Sources -> Clock \cup {NoTime}]
  /\ owed \in SUBSET Sources
  /\ steady \in BOOLEAN

(* A new installation, or one of a version that had only the shared stamp. *)
Init ==
  /\ dir \in DOMAIN Order
  /\ handles = {}
  /\ role = [p \in Procs |-> "out"]
  /\ run = NoRun
  /\ \E old \in BOOLEAN :
       /\ index = IF old THEN Feeds ELSE {}
       /\ shared = IF old THEN 0 ELSE NoTime
       /\ fetched = [s \in Sources |-> IF old THEN 0 ELSE NoTime]
       /\ own = [s \in Sources |-> IF old /\ s \notin Public \cup Keyed THEN 0 ELSE NoTime]
  /\ clock = 0
  /\ owed = {}
  /\ steady = TRUE

-----------------------------------------------------------------------------
(* When a source is refreshed. *)

(* source_age_secs: its own stamp, else the shared one. *)
Stamp(s) ==
  IF own[s] # NoTime THEN own[s]
  ELSE IF s \in Public \cup Keyed THEN shared
  ELSE NoTime

(* saturating_sub: a stamp in the future is of age 0. *)
Age(t) == IF clock >= t THEN clock - t ELSE 0

Due(s) == Stamp(s) = NoTime \/ Age(Stamp(s)) >= Interval[s]

(* Mutant: the index file is not looked for. *)
Missing_Never(s) == FALSE

Missing(s) == s \in Feeds \ index

(* What a run that is not forced refreshes. *)
Stale(s) == Missing(s) \/ Due(s)

(* The source a step is about; the fallback path is about ThreatFox again. *)
Here == IF run.at > Len(Plan) THEN "end"
        ELSE IF Plan[run.at] = "compat" THEN "threatfox" ELSE Plan[run.at]

(* What has to be there for a step to touch its source at all. *)
Possible == Here \in Keyed => run.key

(* The fallback is tried only after a failure of the first path. *)
Called == Plan[run.at] = "compat" => run.primaryFailed

Wanted == Possible /\ Called /\ (run.force \/ Stale(Here))

-----------------------------------------------------------------------------
(* try_update_guard and the end of the guard. *)

(* Mutant: ERROR_ALREADY_EXISTS is not looked at. *)
Enter_NoCheck(p) ==
  /\ role[p] = "out"
  /\ handles' = handles \cup {p}
  /\ role' = [role EXCEPT ![p] = "owner"]
  /\ run' = NoRun
  /\ UNCHANGED <<dir, files, clock, history>>

(* CreateMutexW creates the mutex: this process updates. *)
Enter(p) ==
  /\ role[p] = "out"
  /\ handles = {}
  /\ handles' = {p}
  /\ role' = [role EXCEPT ![p] = "owner"]
  /\ \E f \in BOOLEAN, k \in IF dir = "keyed" THEN BOOLEAN ELSE {FALSE} :
       run' = [NoRun EXCEPT !.force = f, !.key = k]
  /\ UNCHANGED <<dir, files, clock, history>>

(* ERROR_ALREADY_EXISTS: the handle is another one of the same mutex. *)
Refused(p) ==
  /\ role[p] = "out"
  /\ handles # {}
  /\ handles' = handles \cup {p}
  /\ role' = [role EXCEPT ![p] = "refused"]
  /\ UNCHANGED <<dir, run, files, clock, history>>

CloseRefused(p) ==
  /\ role[p] = "refused"
  /\ handles' = handles \ {p}
  /\ role' = [role EXCEPT ![p] = "out"]
  /\ UNCHANGED <<dir, run, files, clock, history>>

(* The guard is dropped after the last source. *)
Finish(p) ==
  /\ role[p] = "owner"
  /\ Here = "end"
  /\ handles' = handles \ {p}
  /\ role' = [role EXCEPT ![p] = "out"]
  /\ run' = NoRun
  /\ UNCHANGED <<dir, files, clock, history>>

(* The system closes the handles of a killed process. *)
Kill(p) ==
  /\ role[p] # "out"
  /\ handles' = handles \ {p}
  /\ role' = [role EXCEPT ![p] = "out"]
  /\ run' = IF role[p] = "owner" THEN NoRun ELSE run
  /\ UNCHANGED <<dir, files, clock, history>>

-----------------------------------------------------------------------------
(* The steps of the owner. *)

NextStep(r) == [r EXCEPT !.at = @ + 1, !.phase = "decide", !.saved = FALSE]

AtSource(p) == role[p] = "owner" /\ Here \in Sources

(* Up to date, no key, no clamscan or freshclam, or the first path did its work. *)
Skip(p) ==
  /\ AtSource(p)
  /\ run.phase = "decide"
  /\ ~Wanted \/ Here = "clamav"
  /\ run' = NextStep(run)
  /\ UNCHANGED <<dir, handles, role, files, clock, history>>

(* Mutant: all_ok = false and the warning are forgotten. *)
Failed_Forgotten(s) == run

(* all_ok of the public sources, and the warning about ThreatFox. *)
Failed(s) == [run EXCEPT !.allOk = @ /\ s \notin Public,
                         !.primaryFailed = @ \/ s = "threatfox"]

Owes(s, stale) == owed' = IF steady /\ stale THEN owed \cup {s} ELSE owed

(* The directory, the download or the parsing fails; for a keyed source   *)
(* also an answer without a domain; for ClamAV an error or the timeout.    *)
Fail(p) ==
  /\ AtSource(p)
  /\ run.phase = "decide"
  /\ Wanted
  /\ run' = NextStep(Failed(Here))
  /\ Owes(Here, Stale(Here))
  /\ UNCHANGED <<dir, handles, role, files, clock, fetched, steady>>

(* Mutant: the stamp is written before the index is there. *)
StartReplace_Stamped(p) ==
  /\ AtSource(p)
  /\ run.phase = "decide"
  /\ Wanted
  /\ Here \in Feeds
  /\ run' = [run EXCEPT !.phase = "replacing", !.saved = Here \in index]
  /\ index' = index \ {Here}
  /\ own' = [own EXCEPT ![Here] = clock]
  /\ UNCHANGED <<dir, handles, role, shared, clock, history>>

(* replace_file moves the live index away. *)
StartReplace(p) ==
  /\ AtSource(p)
  /\ run.phase = "decide"
  /\ Wanted
  /\ Here \in Feeds
  /\ run' = [run EXCEPT !.phase = "replacing", !.saved = Here \in index]
  /\ index' = index \ {Here}
  /\ UNCHANGED <<dir, handles, role, own, shared, clock, history>>

Fresh(s) ==
  /\ fetched' = IF steady THEN [fetched EXCEPT ![s] = clock] ELSE fetched
  /\ owed' = owed \ {s}

EndReplace(p) ==
  /\ AtSource(p)
  /\ run.phase = "replacing"
  /\ index' = index \cup {Here}
  /\ run' = [run EXCEPT !.phase = "mark", !.saved = FALSE]
  /\ Fresh(Here)
  /\ UNCHANGED <<dir, handles, role, own, shared, clock, steady>>

(* Err: the old index is moved back, or that fails too, or the new one is  *)
(* in place and only the temporary file could not be removed.              *)
ReplaceFails(p) ==
  /\ AtSource(p)
  /\ run.phase = "replacing"
  /\ \/ /\ run.saved
        /\ index' = index \cup {Here}
        /\ Owes(Here, Due(Here))
        /\ UNCHANGED fetched
     \/ /\ Owes(Here, TRUE)
        /\ UNCHANGED <<index, fetched>>
     \/ /\ index' = index \cup {Here}
        /\ Fresh(Here)
  /\ run' = NextStep(Failed(Here))
  /\ UNCHANGED <<dir, handles, role, own, shared, clock, steady>>

(* freshclam ended well; it installs its signatures itself. *)
ClamUpdated(p) ==
  /\ AtSource(p)
  /\ run.phase = "decide"
  /\ Here = "clamav"
  /\ Wanted
  /\ run' = [run EXCEPT !.phase = "mark"]
  /\ Fresh(Here)
  /\ UNCHANGED <<dir, handles, role, files, clock, steady>>

(* The own stamp; a failure to write it is ignored. *)
Mark(p) ==
  /\ AtSource(p)
  /\ run.phase = "mark"
  /\ \E written \in BOOLEAN :
       own' = IF written THEN [own EXCEPT ![Here] = clock] ELSE own
  /\ \E written \in BOOLEAN :
       shared' = IF written /\ Plan[run.at] = "compat" THEN clock ELSE shared
  /\ run' = NextStep([run EXCEPT !.anySuccess = @ \/ Here \in Keyed])
  /\ UNCHANGED <<dir, handles, role, index, clock, history>>

(* all_ok: no public source failed in this run. *)
EndPublic(p) ==
  /\ role[p] = "owner"
  /\ Here = "public end"
  /\ \E written \in BOOLEAN :
       shared' = IF written /\ run.allOk THEN clock ELSE shared
  /\ run' = NextStep(run)
  /\ UNCHANGED <<dir, handles, role, index, own, clock, history>>

(* any_success: one of the two keyed sources was refreshed.  The variable   *)
(* goes out of scope here.                                                 *)
EndKeyed(p) ==
  /\ role[p] = "owner"
  /\ Here = "keyed end"
  /\ \E written \in BOOLEAN :
       shared' = IF written /\ run.anySuccess THEN clock ELSE shared
  /\ run' = NextStep([run EXCEPT !.anySuccess = FALSE])
  /\ UNCHANGED <<dir, handles, role, index, own, clock, history>>

-----------------------------------------------------------------------------
(* The clock. *)

Tick ==
  /\ run.phase # "mark"
  /\ clock < MaxClock
  /\ clock' = clock + 1
  /\ UNCHANGED <<dir, handles, role, run, files, history>>

(* Bounded to one time. *)
SetClockBack ==
  /\ run.phase # "mark"
  /\ steady
  /\ clock > 0
  /\ \E c \in 0 .. clock - 1 : clock' = c
  /\ steady' = FALSE
  /\ fetched' = [s \in Sources |-> NoTime]
  /\ owed' = {}
  /\ UNCHANGED <<dir, handles, role, run, files>>

OwnerStep(p) ==
  \/ Skip(p) \/ Fail(p) \/ StartReplace(p) \/ EndReplace(p) \/ ReplaceFails(p)
  \/ ClamUpdated(p) \/ Mark(p) \/ EndPublic(p) \/ EndKeyed(p) \/ Finish(p)

Next ==
  \/ \E p \in Procs : Enter(p) \/ Refused(p) \/ CloseRefused(p) \/ Kill(p) \/ OwnerStep(p)
  \/ Tick
  \/ SetClockBack

Spec == Init /\ [][Next]_vars

(* The downloads of an owner have time limits (intel.rs:269-275) and it has *)
(* no loop that waits, a refused process ends, and the task starts again   *)
(* and again.                                                              *)
Fairness ==
  /\ WF_vars(\E p \in Procs : OwnerStep(p))
  /\ WF_vars(\E p \in Procs : CloseRefused(p))
  /\ SF_vars(\E p \in Procs : Enter(p))

FairSpec == Spec /\ Fairness

-----------------------------------------------------------------------------
(* What is checked. *)

(* The databases are updated by one process at a time (docs/COVERAGE.md:63), *)
(* with refused processes keeping handles of the mutex for a moment.       *)
AtMostOneUpdate ==
  \A p, q \in Procs : role[p] = "owner" /\ role[q] = "owner" => p = q

(* A stamp never claims more than was done: as long as the clock is not    *)
(* set back, the index of a source is at least as new as its own stamp.    *)
StampHonest ==
  steady => \A s \in Sources : own[s] <= fetched[s]

(* A source that was due and failed is refreshed by the next run, whatever *)
(* the other sources did in between; a keyed source with an index and      *)
(* without a stamp of its own is the exception.                            *)
FailedIsRetried ==
  steady => \A s \in owed :
    Stale(s) \/ (s \in Keyed \cap index /\ own[s] = NoTime)

(* docs/INTELLIGENCE.md:27: "A successful URLhaus refresh therefore does   *)
(* not delay retrying a failed ThreatFox refresh, and vice versa."         *)
KeyedRetriedIndependently == steady => \A s \in owed \cap Keyed : Stale(s)

(* A public or regional index lost by a kill or a failed rollback is there *)
(* again some time, whatever its stamps and the clock say, if failures and *)
(* kills stop and the mutex gets free again and again.                     *)
Harm ==
  \E p \in Procs :
    \/ Kill(p) /\ ~CloseRefused(p) /\ ~Finish(p)  \* not the step of a process that ends
    \/ Fail(p) \/ ReplaceFails(p)

LostIndexReturns ==
  []<>(handles = {}) /\ <>[][~Harm]_vars
    => \A s \in Feeds \ Keyed : s \in Ours => []<>(s \in index)
=============================================================================
