------------------------------ MODULE ClamScan ------------------------------
(***************************************************************************)
(* The check of started programs with ClamAV: scan_candidates and          *)
(* output_with_timeout of src/src/clam_bridge.rs.  The files that start by *)
(* themselves are given to clamscan, which writes a line for each infected *)
(* one and for each it cannot read, all of them to its standard output.    *)
(*                                                                         *)
(* That is a pipe of a fixed size, and it is read only after the child has *)
(* ended: a child that has more to say waits for ever, until it is killed  *)
(* at the time limit.                                                      *)
(***************************************************************************)
EXTENDS Integers, FiniteSets

CONSTANTS
  MaxFiles,   \* bound of the number of candidates
  Limit,      \* candidates that are checked: 24 in the code
  PipeSize,   \* lines that fit into the pipe
  Timeout     \* polls before the child is killed: 900 in the code

ASSUME ClamScanAssumption == {MaxFiles, Limit, PipeSize, Timeout} \subseteq Nat

VARIABLES
  candidates, \* number of the files that were collected, in their order
  infected, unreadable,   \* numbers of files
  child,      \* "none", "running", "ended" or "killed"
  next,       \* the file the child is at
  out, err,   \* files the pipe names as infected, and as unreadable
  code,       \* exit code of the child; "other" if it crashed
  poll,       \* of the worker
  polls,      \* number of times it slept
  reported,   \* the files it reported
  verdict,    \* and its last line
  unanswered  \* history: the system could not say whether the last child has ended

clamVars == <<candidates, infected, unreadable, child, next, out, err, code, poll, polls,
              reported, verdict, unanswered>>

Files == 1 .. MaxFiles
Checked == 1 .. (IF candidates < Limit THEN candidates ELSE Limit)

ClamTypeOK ==
  /\ candidates \in 0 .. MaxFiles
  /\ infected \subseteq Files /\ unreadable \subseteq Files
  /\ child \in {"none", "running", "ended", "killed"}
  /\ next \in 1 .. MaxFiles + 1
  /\ out \subseteq infected /\ err \subseteq unreadable
  /\ Cardinality(out \cup err) <= PipeSize
  /\ code \in {"0", "1", "2", "other"}
  /\ poll \in {"idle", "wait", "elapsed", "reap"}
  /\ polls \in 0 .. Timeout
  /\ reported \subseteq Files
  /\ verdict \in {"nothing", "skipped", "clean", "found", "errors", "timeout", "failed"}
  /\ unanswered \in BOOLEAN

ClamInit ==
  /\ candidates = 0
  /\ infected = {} /\ unreadable = {}
  /\ child = "none"
  /\ next = 1
  /\ out = {} /\ err = {}
  /\ code = "0"
  /\ poll = "idle"
  /\ polls = 0
  /\ reported = {}
  /\ verdict = "nothing"
  /\ unanswered = FALSE

-----------------------------------------------------------------------------
(* scan_candidates. *)

(* There is no clamscan, no candidate, or it cannot be started. *)
ScanNothing ==
  /\ poll = "idle"
  /\ verdict' \in {"skipped", "failed"}
  /\ reported' = {}
  /\ UNCHANGED <<candidates, infected, unreadable, child, next, out, err, code, poll, polls,
                 unanswered>>

(* A child that an earlier check has left is not looked at again. *)
ScanCandidates ==
  /\ poll = "idle"
  /\ candidates' \in Files
  /\ infected' \in SUBSET (1 .. candidates') /\ unreadable' \in SUBSET (1 .. candidates')
  /\ child' = "running"
  /\ next' = 1
  /\ out' = {} /\ err' = {}
  /\ poll' = "wait"
  /\ polls' = 0
  /\ reported' = {}
  /\ verdict' = "nothing"
  /\ unanswered' = FALSE
  /\ UNCHANGED code

(* Mutant: the exit code 2 for files that could not be read is forgotten. *)
Verdict_NoErrors(files, exit) == IF files = {} THEN "clean" ELSE "found"

(* What the output and the exit code are reported as. *)
Verdict(files, exit) ==
  IF exit = "2" THEN "errors" ELSE IF files = {} THEN "clean" ELSE "found"

-----------------------------------------------------------------------------
(* output_with_timeout. *)

WorkerUnchanged == UNCHANGED <<candidates, infected, unreadable, next, out, err, code>>

(* The child has ended: the pipe is read to its end. *)
TryWaitEnded ==
  /\ poll = "wait"
  /\ child = "ended"
  /\ reported' = out
  /\ verdict' = Verdict(out, code)
  /\ poll' = "idle"
  /\ WorkerUnchanged /\ UNCHANGED <<child, polls, unanswered>>

ReadFails ==
  /\ poll = "wait"
  /\ child = "ended"
  /\ verdict' = "failed"
  /\ poll' = "idle"
  /\ WorkerUnchanged /\ UNCHANGED <<child, polls, reported, unanswered>>

TryWaitRunning ==
  /\ poll = "wait"
  /\ child = "running"
  /\ poll' = "elapsed"
  /\ WorkerUnchanged /\ UNCHANGED <<child, polls, reported, verdict, unanswered>>

(* The question fails, and the child is left as it is. *)
TryWaitFails ==
  /\ poll = "wait"
  /\ verdict' = "failed"
  /\ poll' = "idle"
  /\ unanswered' = TRUE
  /\ WorkerUnchanged /\ UNCHANGED <<child, polls, reported>>

(* Mutant: the time limit starts again with every poll. *)
Sleep_FromNow ==
  /\ poll = "elapsed"
  /\ polls < Timeout
  /\ poll' = "wait"
  /\ WorkerUnchanged /\ UNCHANGED <<child, polls, reported, verdict, unanswered>>

Sleep ==
  /\ poll = "elapsed"
  /\ polls < Timeout
  /\ polls' = polls + 1
  /\ poll' = "wait"
  /\ WorkerUnchanged /\ UNCHANGED <<child, reported, verdict, unanswered>>

(* kill and wait; the child may have ended in the meantime. *)
GiveUp ==
  /\ poll = "elapsed"
  /\ polls = Timeout
  /\ child' = IF child = "running" THEN "killed" ELSE child
  /\ verdict' = "timeout"
  /\ poll' = "idle"
  /\ WorkerUnchanged /\ UNCHANGED <<polls, reported, unanswered>>

(* The result of kill is ignored, and the worker waits all the same. *)
KillFails ==
  /\ poll = "elapsed"
  /\ polls = Timeout
  /\ poll' = "reap"
  /\ WorkerUnchanged /\ UNCHANGED <<child, polls, reported, verdict, unanswered>>

Reap ==
  /\ poll = "reap"
  /\ child # "running"
  /\ verdict' = "timeout"
  /\ poll' = "idle"
  /\ WorkerUnchanged /\ UNCHANGED <<child, polls, reported, unanswered>>

ClamWorker ==
  \/ TryWaitEnded \/ ReadFails \/ TryWaitRunning \/ TryWaitFails
  \/ Sleep \/ GiveUp \/ KillFails \/ Reap

-----------------------------------------------------------------------------
(* clamscan. *)

ChildUnchanged ==
  UNCHANGED <<candidates, infected, unreadable, poll, polls, reported, verdict, unanswered>>

(* It goes on with the next file if what it has to say about this one fits *)
(* into the pipe.                                                          *)
ChildChecks ==
  /\ poll # "idle" /\ child = "running"
  /\ next \in Checked
  /\ out' = IF next \in infected \ unreadable THEN out \cup {next} ELSE out
  /\ err' = IF next \in unreadable THEN err \cup {next} ELSE err
  /\ Cardinality(out' \cup err') <= PipeSize
  /\ next' = next + 1
  /\ UNCHANGED <<child, code>> /\ ChildUnchanged

(* A file that it could not read shows only if none is infected. *)
ChildEnds ==
  /\ poll # "idle" /\ child = "running"
  /\ next \notin Checked
  /\ child' = "ended"
  /\ code' = IF out # {} THEN "1" ELSE IF err # {} THEN "2" ELSE "0"
  /\ UNCHANGED <<next, out, err>> /\ ChildUnchanged

ChildCrashes ==
  /\ poll # "idle" /\ child = "running"
  /\ child' = "ended"
  /\ code' = "other"
  /\ UNCHANGED <<next, out, err>> /\ ChildUnchanged

(* One that was left: the pipe is closed, and nobody learns how it ends. *)
LeftChildEnds ==
  /\ poll = "idle" /\ child = "running"
  /\ child' = "ended"
  /\ UNCHANGED <<next, out, err, code>> /\ ChildUnchanged

ClamNext ==
  \/ ScanNothing
  \/ ScanCandidates
  \/ TryWaitEnded
  \/ ReadFails
  \/ TryWaitRunning
  \/ TryWaitFails
  \/ Sleep
  \/ GiveUp
  \/ KillFails
  \/ Reap
  \/ ChildChecks
  \/ ChildEnds
  \/ ChildCrashes
  \/ LeftChildEnds

-----------------------------------------------------------------------------
(* What is checked; WindowActions names these for its run. *)

(* The files reported are infected and were read; and unless the child      *)
(* crashed (any other exit code is taken for a complete check) they are all *)
(* such files that were checked, clean is said only if there is none and    *)
(* all could be read, found only if there is one.  That some could not be   *)
(* read is said only if no other one is infected: found is silent of it.    *)
VerdictIsComplete ==
  /\ reported \subseteq infected \ unreadable
  /\ verdict \in {"clean", "found", "errors"} /\ code # "other" =>
       /\ reported = (infected \ unreadable) \cap Checked
       /\ verdict = "found" <=> reported # {}
       /\ verdict = "clean" <=> (infected \cup unreadable) \cap Checked = {}

(* No clamscan is left behind when the worker goes on, unless the system    *)
(* could not say whether it has ended.                                      *)
NoChildLeft == poll = "idle" /\ child = "running" => unanswered

(* The worker gets its answer although nobody reads a full pipe and the     *)
(* child waits for it: one of the two waits gives up, unless kill() fails   *)
(* and the child does not end by itself.                                    *)
ScanReturns == (poll # "idle") ~> (poll = "idle" \/ (poll = "reap" /\ child = "running"))
=============================================================================
