---------------------------- MODULE WindowProofs ----------------------------
(***************************************************************************)
(* Proofs about the window of main.rs: about GuiJobs for every set of jobs, *)
(* and about WindowActions for every set of windows and copies, machines,   *)
(* failures of a save, files and sizes of the pipes.                        *)
(***************************************************************************)
EXTENDS GuiJobs, WindowActions, FiniteSetTheorems, WellFoundedInduction, TLAPS

(* The flag of a kind stays set from the click to the end of the job. *)
FlagsCoverJobs == \A j \in Jobs : Busy(j) => running[kind[j]]

(* Where the result in a slot comes from, and that it has a message, if     *)
(* PostMessageW did not fail.                                               *)
ResultsInSlots ==
  \A k \in Kinds : slot[k] # NoJob =>
    /\ kind[slot[k]] = k
    /\ \/ jpc[slot[k]] \in {"stored", "cleared", "unposted"}
       \/ jpc[slot[k]] = "done" /\ posted[k] > 0

(* AtMostOneJob is inductive only with FlagsCoverJobs: a click looks at the *)
(* flags, never at the threads.                                             *)
IInv ==
  /\ TypeOK
  /\ FlagsCoverJobs
  /\ AtMostOneJob
  /\ ResultsInSlots

-----------------------------------------------------------------------------
(* Initially no job has been started. *)
LEMMA InitIInv == Init => IInv
  BY GuiAssumption
     DEF Init, IInv, TypeOK, Kinds, JobPC, FlagsCoverJobs, AtMostOneJob,
         ResultsInSlots, Busy

(* Every message that is handled and every step of a worker keeps the       *)
(* invariant (main.rs:173-259).                                             *)
LEMMA StepIInv == IInv /\ Next => IInv'
  <1> SUFFICES ASSUME IInv, Next PROVE IInv'
    OBVIOUS
  <1> USE GuiAssumption
          DEF IInv, TypeOK, Kinds, JobPC, FlagsCoverJobs, AtMostOneJob,
              ResultsInSlots, Busy
  <1>1. CASE TakeClick    BY <1>1 DEF TakeClick
  <1>2. CASE IgnoreClick  BY <1>2 DEF IgnoreClick
  <1>3. CASE CloseWindow  BY <1>3 DEF CloseWindow
  <1>4. ASSUME NEW k \in Kinds, ShowResult(k) PROVE IInv'
    BY <1>4 DEF ShowResult
  <1>5. ASSUME NEW j \in Jobs, StartJob(j) PROVE IInv'
    BY <1>5 DEF StartJob, Other
  <1>6. ASSUME NEW j \in Jobs, StoreResult(j) PROVE IInv'
    BY <1>6 DEF StoreResult
  <1>7. ASSUME NEW j \in Jobs, ClearFlag(j) PROVE IInv'
    BY <1>7 DEF ClearFlag
  <1>8. ASSUME NEW j \in Jobs, PostDone(j) PROVE IInv'
    BY <1>8 DEF PostDone
  <1> QED BY <1>1, <1>2, <1>3, <1>4, <1>5, <1>6, <1>7, <1>8
          DEF Next, WorkerStep

(* The invariant holds in every reachable state. *)
THEOREM InductiveInvariant == Spec => []IInv
  <1>1. IInv /\ UNCHANGED vars => IInv'
    BY DEF IInv, vars, TypeOK, FlagsCoverJobs, AtMostOneJob, ResultsInSlots, Busy
  <1>2. IInv /\ [Next]_vars => IInv'
    BY <1>1, StepIInv
  <1> QED BY InitIInv, <1>2, PTL DEF Spec

-----------------------------------------------------------------------------
(* Every variable has its type in every reachable state. *)
THEOREM TypeCorrect == Spec => []TypeOK
  <1>1. IInv => TypeOK BY DEF IInv
  <1> QED BY InductiveInvariant, <1>1, PTL

(* However many jobs are started and however their threads are scheduled,   *)
(* a database update never overlaps a scan or a baseline job of the window. *)
THEOREM JobsExcludeEachOther == Spec => []AtMostOneJob
  <1>1. IInv => AtMostOneJob BY DEF IInv
  <1> QED BY InductiveInvariant, <1>1, PTL

(* Every result in a slot has a message that is posted or will be, unless   *)
(* PostMessageW has failed for it (main.rs:191, 213).                       *)
THEOREM ResultsHaveMessages == Spec => []NothingStranded
  <1>1. IInv => NothingStranded
    BY GuiAssumption DEF IInv, TypeOK, ResultsInSlots, NothingStranded
  <1> QED BY InductiveInvariant, <1>1, PTL

(* A result is overwritten only when its worker has cleared the flag and    *)
(* its message was not dispatched, or not even posted (main.rs:186-191).    *)
THEOREM OverwrittenInTheGap == Spec => OverwrittenOnlyBeforeDispatch
  <1> DEFINE Gap == \A k \in Kinds : slot[k] # NoJob /\ slot'[k] \notin {slot[k], NoJob} =>
                      ~Busy(slot[k]) /\ MayBeLost(k)
  <1>1. IInv /\ [Next]_vars => [Gap]_vars
    <2> SUFFICES ASSUME IInv, Next, NEW k \in Kinds,
                        slot[k] # NoJob, slot'[k] \notin {slot[k], NoJob}
                 PROVE  ~Busy(slot[k]) /\ MayBeLost(k)
      OBVIOUS
    <2> USE DEF IInv, TypeOK
    <2>1. PICK j \in Jobs : StoreResult(j) /\ slot'[k] = j
      BY DEF Next, TakeClick, IgnoreClick, CloseWindow, ShowResult, StartJob,
             WorkerStep, StoreResult, ClearFlag, PostDone
    <2>2. Busy(j) /\ j # slot[k] /\ slot[k] \in Jobs
      BY <2>1 DEF StoreResult, Busy
    <2>3. ~Busy(slot[k])
      BY <2>2 DEF AtMostOneJob
    <2> QED BY <2>3 DEF Busy, ResultsInSlots, MayBeLost
  <1> QED BY InductiveInvariant, <1>1, PTL DEF Spec, OverwrittenOnlyBeforeDispatch

-----------------------------------------------------------------------------
(* JobsComeToAnEnd itself is about fairness.  What it rests on is not: that *)
(* a flag has a worker that will clear it, and that a worker gets there.    *)
FlagsHaveJobs == \A k \in Kinds : running[k] => \E j \in Jobs : kind[j] = k /\ Busy(j)

(* A worker clears the flag of its own kind alone, once. *)
LEMMA StepFlags == IInv /\ FlagsHaveJobs /\ Next => FlagsHaveJobs'
  <1> SUFFICES ASSUME IInv, FlagsHaveJobs, Next PROVE FlagsHaveJobs'
    OBVIOUS
  <1> USE DEF IInv, TypeOK, Kinds, JobPC, FlagsHaveJobs, Busy
  <1>1. CASE TakeClick \/ IgnoreClick \/ CloseWindow \/ \E k \in Kinds : ShowResult(k)
    BY <1>1 DEF TakeClick, IgnoreClick, CloseWindow, ShowResult
  <1>2. ASSUME NEW j \in Jobs, StartJob(j) PROVE FlagsHaveJobs'
    BY <1>2 DEF StartJob
  <1>3. ASSUME NEW j \in Jobs, StoreResult(j) PROVE FlagsHaveJobs'
    BY <1>3 DEF StoreResult
  <1>4. ASSUME NEW j \in Jobs, ClearFlag(j) PROVE FlagsHaveJobs'
    <2>1. ASSUME NEW k \in Kinds, running'[k] PROVE \E i \in Jobs : kind'[i] = k /\ Busy(i)'
      <3>1. k # kind[j] /\ running[k]
        BY <1>4, <2>1 DEF ClearFlag
      <3>2. PICK i \in Jobs : kind[i] = k /\ Busy(i)
        BY <3>1
      <3> QED BY <1>4, <3>1, <3>2 DEF ClearFlag
    <2> QED BY <2>1
  <1>5. ASSUME NEW j \in Jobs, PostDone(j) PROVE FlagsHaveJobs'
    BY <1>5 DEF PostDone
  <1> QED BY <1>1, <1>2, <1>3, <1>4, <1>5 DEF Next, WorkerStep

(* While a flag refuses clicks, a worker is at work that has yet to clear   *)
(* it: no interleaving leaves the buttons dead (main.rs:173-208).           *)
THEOREM RefusalsHaveAReason == Spec => []FlagsHaveJobs
  <1>1. Init => FlagsHaveJobs
    BY DEF Init, FlagsHaveJobs
  <1>2. FlagsHaveJobs /\ UNCHANGED vars => FlagsHaveJobs'
    BY DEF FlagsHaveJobs, vars, Busy
  <1>3. IInv /\ FlagsHaveJobs /\ [Next]_vars => FlagsHaveJobs'
    BY <1>2, StepFlags
  <1> QED BY InductiveInvariant, <1>1, <1>3, PTL DEF Spec

-----------------------------------------------------------------------------
(* WindowActions: the settings, the baseline and the check with ClamAV.     *)

(* What a window has learned of the entry when it acts on it: the entry is *)
(* still what its query found, or another window has changed it since.      *)
Informed(w) ==
  /\ step[w] # "idle" => answer[w] = "nothing"
  /\ step[w] \in {"toggle", "status"} => seen[w] = "unseen"
  /\ step[w] = "delete" =>
       /\ seen[w] = Path[w] /\ Path[w] \in Legible
       /\ entry \in {Path[w], "none"} \/ RegisteredSince(w, entry)
  /\ step[w] = "add" /\ seen[w] = Path[w] => Path[w] \notin Legible
  /\ step[w] = "exists" /\ entry = Path[w] =>
       RegisteredSince(w, entry) \/ seen[w] = "unseen" \/ Path[w] \notin Legible

AutoIInv == \A w \in Windows : Informed(w)

(* What is about to be written is what a scan of some machine gave. *)
TextIsReport ==
  pc # "idle" =>
    /\ text.of \in Machines
    /\ text.lines = Normalize(ReportsOf[text.of][scanner])

(* A complete file is the report of a machine, and an answer about one      *)
(* compares the reports of two.                                             *)
Report(s) == Normalize(ReportsOf[s][scanner])

AnswersCompareReports ==
  /\ file.state = "whole" => file.lines = Report(file.of)
  /\ told.state = "whole" =>
       /\ told.answer \in {"same", "changed"}
       /\ told.then \in Machines /\ told.now \in Machines
       /\ told.answer = "same" <=> Report(told.then) = Report(told.now)

(* Which of the two files is complete at each step of a save.  Before the   *)
(* first harm both may be counted on while the file is overwritten; after   *)
(* it, one of them.                                                         *)
OneIsWhole ==
  /\ saved /\ harms = 0 => file.state = "whole" /\ (pc = "write" => backup = "whole")
  /\ saved /\ harms <= 1 => pc = "write" \/ file.state = "whole" \/ backup = "whole"

(* The pipe holds what the child found in the files before the one it is    *)
(* at, and its exit code tells what the pipe holds.                         *)
PipesAreExact ==
  poll # "idle" =>
    /\ verdict = "nothing" /\ reported = {}
    /\ child \in {"running", "ended"}
    /\ out = {f \in infected \ unreadable : f \in Checked /\ f < next}
    /\ err = {f \in unreadable : f \in Checked /\ f < next}
    /\ child = "ended" /\ code # "other" =>
         /\ next \notin Checked
         /\ code = IF out # {} THEN "1" ELSE IF err # {} THEN "2" ELSE "0"

WinIInv ==
  /\ WinTypeOK
  /\ AutoIInv
  /\ TextIsReport
  /\ AnswersCompareReports
  /\ OneIsWhole
  /\ PipesAreExact
  /\ VerdictIsFinal

(* Every part starts at rest. *)
LEMMA InitWinIInv == WinInit => WinIInv
  <1> SUFFICES ASSUME WinInit PROVE WinIInv
    OBVIOUS
  <1>1. AutoTypeOK /\ AutoIInv
    BY DEF WinInit, AutoInit, AutoTypeOK, AutoIInv, Informed, Entries
  <1>2. BaseTypeOK
    <2>1. harms \in 0 .. MaxHarms
      BY BaselineAssumption DEF WinInit, BaseInit
    <2>2. saved \in BOOLEAN
      BY Zenon DEF WinInit, BaseInit
    <2>3. /\ scanner \in Scanners /\ machine \in Machines
          /\ file.state \in FileStates /\ file.of \in Machines /\ file.lines = {}
          /\ backup \in FileStates /\ pc = "idle" /\ text.of \in Machines
          /\ told.answer = "nothing"
      BY BaselineAssumption DEF WinInit, BaseInit, FileStates, NoText, Nothing
    <2> QED BY <2>1, <2>2, <2>3 DEF BaseTypeOK
  <1>3. TextIsReport /\ OneIsWhole /\ AnswersCompareReports
    BY DEF WinInit, BaseInit, TextIsReport, OneIsWhole, AnswersCompareReports, Nothing
  <1>4. ClamTypeOK
    <2>1. out \cup err = {}
      BY DEF WinInit, ClamInit
    <2>2. Cardinality(out \cup err) = 0
      BY <2>1, FS_EmptySet, Zenon
    <2>3. Cardinality(out \cup err) <= PipeSize
      BY <2>2, ClamScanAssumption
    <2>4. /\ candidates = 0 /\ infected = {} /\ unreadable = {} /\ child = "none" /\ next = 1
          /\ out = {} /\ err = {} /\ code = "0" /\ poll = "idle" /\ polls = 0
          /\ reported = {} /\ verdict = "nothing" /\ unanswered = FALSE
      BY DEF WinInit, ClamInit
    <2>5. 0 \in 0 .. MaxFiles /\ 0 \in 0 .. Timeout /\ 1 \in 1 .. MaxFiles + 1
      BY ClamScanAssumption
    <2> QED BY <2>3, <2>4, <2>5 DEF ClamTypeOK
  <1>5. PipesAreExact /\ VerdictIsFinal
    BY DEF WinInit, ClamInit, PipesAreExact, VerdictIsFinal, VerdictIsComplete, NoChildLeft
  <1>6. part \in {"automation", "baseline", "clam"}
    BY DEF WinInit
  <1> QED BY <1>1, <1>2, <1>3, <1>4, <1>5, <1>6 DEF WinIInv, WinTypeOK

(* What a step of one window leaves to another that is at work: its own     *)
(* state, and what has been registered since its query.                     *)
LEMMA OthersStayInformed ==
  ASSUME AutoTypeOK, NEW w \in Windows, NEW v \in Windows \ {w}, Informed(v),
         step'[v] = step[v], answer'[v] = answer[v], seen'[v] = seen[v],
         \/ entry' = entry /\ since'[v] = since[v]
         \/ entry' \in {Path[w], "none"} /\ (step[v] # "idle" => since'[v] = since[v] \cup {w})
  PROVE  Informed(v)'
  <1>0. Path[v] # "none"
    BY AutomationAssumption DEF Paths
  <1>1. CASE step[v] = "idle"
    BY <1>1 DEF Informed
  <1>2. CASE entry' = entry /\ since'[v] = since[v]
    BY <1>2 DEF Informed, RegisteredSince
  <1>3. CASE step[v] # "idle" /\ since'[v] = since[v] \cup {w} /\ entry' = Path[w]
    <2>1. RegisteredSince(v, entry)'
      BY <1>3 DEF RegisteredSince
    <2> QED BY <1>3, <2>1 DEF Informed
  <1>4. CASE step[v] # "idle" /\ entry' = "none"
    BY <1>0, <1>4 DEF Informed
  <1> QED BY <1>1, <1>2, <1>3, <1>4

(* Whatever other windows and failures do, a window that finds something    *)
(* else than its query did has the change noted (automation.rs:14-146).     *)
LEMMA AutoStepIInv ==
  ASSUME AutoTypeOK, AutoIInv, AutoNext
  PROVE  AutoTypeOK' /\ AutoIInv'
  <1> PICK w \in Windows :
        \/ Click(w, "toggle") \/ Click(w, "status")
        \/ QueryToggle(w) \/ QueryStatus(w) \/ QueryExists(w)
        \/ QueryFails(w) \/ NoPath(w)
        \/ Delete(w) \/ Add(w) \/ ChangeFails(w)
    BY DEF AutoNext
  <1> DEFINE Quiet == entry' = entry /\ \A v \in Windows \ {w} : since'[v] = since[v]
             Noted == /\ entry' \in {Path[w], "none"}
                      /\ \A v \in Windows \ {w} : step[v] # "idle" =>
                           since'[v] = since[v] \cup {w}
             Own == \A v \in Windows \ {w} :
                      step'[v] = step[v] /\ answer'[v] = answer[v] /\ seen'[v] = seen[v]
             Kept == AutoTypeOK' /\ Informed(w)' /\ Own /\ (Quiet \/ Noted)
  <1>0. Path[w] \in Entries /\ "none" \in Entries /\ Path[w] \notin {"none", "unseen"}
        /\ (entry # "unseen")
    BY AutomationAssumption DEF Entries, Paths, AutoTypeOK
  <1>a. Informed(w)
    BY DEF AutoIInv
  <1>b. Kept
    <2> USE <1>0, <1>a
            DEF AutoTypeOK, Informed, Goes, Tells, Sees, Looks, Matches
    <2>1. CASE Click(w, "toggle")  BY <2>1 DEF Click
    <2>2. CASE Click(w, "status")  BY <2>2 DEF Click
    <2>3. CASE QueryToggle(w)      BY <2>3 DEF QueryToggle
    <2>4. CASE QueryStatus(w)
      <3>1. AutoTypeOK' /\ Own     BY <2>4 DEF QueryStatus
      <3>2. Quiet                  BY <2>4 DEF QueryStatus
      <3>3. Informed(w)'
        <4>1. CASE Matches(w)
          BY <2>4, <4>1 DEF QueryStatus
        <4>2. CASE ~Matches(w)
          BY <2>4, <4>2 DEF QueryStatus
        <4> QED BY <4>1, <4>2
      <3> QED BY <3>1, <3>2, <3>3
    <2>5. CASE QueryExists(w)      BY <2>5 DEF QueryExists
    <2>6. CASE QueryFails(w)       BY <2>6 DEF QueryFails
    <2>7. CASE NoPath(w)
      <3>1. CASE step'[w] = "idle"
        <4>1. AutoTypeOK' /\ Own   BY <2>7, <3>1 DEF NoPath
        <4>2. Quiet                BY <2>7 DEF NoPath
        <4>3. Informed(w)'         BY <2>7, <3>1 DEF NoPath
        <4> QED BY <4>1, <4>2, <4>3
      <3>2. CASE step[w] = "status" /\ Goes(w, "exists") /\ UNCHANGED answer
        BY <2>7, <3>2 DEF NoPath, RegisteredSince
      <3> QED BY <2>7, <3>1, <3>2 DEF NoPath
    <2>8. CASE Delete(w)
      <3>1. CASE entry # "none"
        <4>1. AutoTypeOK'
          <5>1. \A v \in Windows : since[v] \cup {w} \subseteq Windows
            OBVIOUS
          <5>2. since' = [v \in Windows |-> IF v = w \/ step[v] = "idle" THEN {}
                                           ELSE since[v] \cup {w}]
            BY <2>8, <3>1 DEF Delete, Changes
          <5>3. since' \in [Windows -> SUBSET Windows]
            BY <5>1, <5>2
          <5> QED BY <2>8, <3>1, <5>3 DEF Delete, Changes
        <4>2. Informed(w)' /\ Own  BY <2>8, <3>1 DEF Delete, Changes
        <4>3. Noted                BY <2>8, <3>1 DEF Delete, Changes
        <4> QED BY <4>1, <4>2, <4>3
      <3>2. CASE entry = "none"    BY <2>8, <3>2 DEF Delete
      <3> QED BY <3>1, <3>2
    <2>9. CASE Add(w)
      <3>1. AutoTypeOK'            BY <2>9 DEF Add, Changes
      <3>2. Informed(w)' /\ Own    BY <2>9 DEF Add, Changes
      <3>3. Noted                  BY <2>9 DEF Add, Changes
      <3> QED BY <3>1, <3>2, <3>3
    <2>10. CASE ChangeFails(w)     BY <2>10 DEF ChangeFails
    <2> QED BY <2>1, <2>2, <2>3, <2>4, <2>5, <2>6, <2>7, <2>8, <2>9, <2>10
  <1>c. ASSUME NEW v \in Windows \ {w} PROVE Informed(v)'
    <2>1. Informed(v)
      BY DEF AutoIInv
    <2> QED BY <1>b, <2>1, OthersStayInformed
  <1> QED BY <1>b, <1>c DEF AutoIInv

(* Every step of a save, completed, failed or cut off, and every comparison *)
(* keeps the invariant (baseline.rs:9-92).                                  *)
LEMMA BaseStepIInv ==
  ASSUME BaseTypeOK, TextIsReport, AnswersCompareReports, OneIsWhole, BaseNext
  PROVE  BaseTypeOK' /\ TextIsReport' /\ AnswersCompareReports' /\ OneIsWhole'
  <1> USE BaselineAssumption
          DEF BaseTypeOK, TextIsReport, AnswersCompareReports, Report, OneIsWhole, FileStates,
              NoText, Nothing, Answers
  <1>1. CASE MachineChanges   BY <1>1 DEF MachineChanges
  <1>2. CASE Save             BY <1>2 DEF Save, CollectScanLines
  <1>3. CASE SaveBackup       BY <1>3 DEF SaveBackup
  <1>4. CASE SaveBackupFails  BY <1>4 DEF SaveBackupFails
  <1>5. CASE SaveWrite        BY <1>5 DEF SaveWrite
  <1>6. CASE SaveWriteFails   BY <1>6 DEF SaveWriteFails, CutOff
  <1>7. CASE SaveStops        BY <1>7 DEF SaveStops
  <1>8. CASE Compare          BY <1>8 DEF Compare, CollectScanLines
  <1> QED BY <1>1, <1>2, <1>3, <1>4, <1>5, <1>6, <1>7, <1>8 DEF BaseNext

(* Every step of the worker and of clamscan, also one that crashes or is    *)
(* killed, keeps the invariant (clam_bridge.rs:14-63, 274-293).             *)
LEMMA ClamStepIInv ==
  ASSUME ClamTypeOK, PipesAreExact, VerdictIsFinal, ClamNext
  PROVE  ClamTypeOK' /\ PipesAreExact' /\ VerdictIsFinal'
  <1> USE ClamScanAssumption
          DEF ClamTypeOK, PipesAreExact, VerdictIsFinal, VerdictIsComplete, NoChildLeft,
              Files, Checked, WorkerUnchanged, ChildUnchanged
  <1>1. CASE ScanNothing      BY <1>1 DEF ScanNothing
  <1>2. CASE ScanCandidates
    <2>1. candidates' \in 1 .. MaxFiles /\ next' = 1 /\ polls' = 0
          /\ infected' \subseteq 1 .. candidates' /\ unreadable' \subseteq 1 .. candidates'
      BY <1>2 DEF ScanCandidates
    <2>2. infected' \subseteq Files /\ unreadable' \subseteq Files
      BY <2>1
    <2>3. ClamTypeOK'
      <3>1. candidates' \in 0 .. MaxFiles /\ next' \in 1 .. MaxFiles + 1
            /\ polls' \in 0 .. Timeout
        BY <2>1
      <3>2. Cardinality((out \cup err)') <= PipeSize
        <4>1. out' \cup err' = {}
          BY <1>2 DEF ScanCandidates
        <4>2. Cardinality(out' \cup err') = 0
          BY <4>1, FS_EmptySet, Zenon
        <4> QED BY <4>2
      <3> QED BY <1>2, <2>2, <3>1, <3>2 DEF ScanCandidates
    <2>4. VerdictIsFinal'
      BY <1>2 DEF ScanCandidates
    <2>5. PipesAreExact'
      <3>1. \A f \in Checked' : ~(f < next')
        BY <2>1
      <3> QED BY <1>2, <3>1 DEF ScanCandidates
    <2> QED BY <2>3, <2>4, <2>5
  <1>3. CASE TryWaitEnded
    <2>1. ClamTypeOK' /\ PipesAreExact'
      BY <1>3 DEF TryWaitEnded, Verdict
    <2>2. NoChildLeft'
      BY <1>3 DEF TryWaitEnded
    <2>3. VerdictIsComplete'
      <3>1. reported' = out /\ verdict' = Verdict(out, code) /\ Checked' = Checked
            /\ UNCHANGED <<infected, unreadable, code>>
        BY <1>3 DEF TryWaitEnded
      <3>2. out \subseteq infected \ unreadable
        BY <1>3 DEF TryWaitEnded
      <3>3. ASSUME code # "other"
            PROVE  /\ out = (infected \ unreadable) \cap Checked
                   /\ err = unreadable \cap Checked
                   /\ code = IF out # {} THEN "1" ELSE IF err # {} THEN "2" ELSE "0"
        <4>1. next \in Int /\ next >= 1 /\ next \notin Checked
          BY <1>3, <3>3 DEF TryWaitEnded
        <4>2. \A f \in Checked : f < next
          BY <4>1
        <4> QED BY <1>3, <3>3, <4>2 DEF TryWaitEnded
      <3>4. CASE code = "other"
        BY <3>1, <3>2, <3>4
      <3>5. CASE code # "other"
        BY <3>1, <3>2, <3>3, <3>5 DEF Verdict
      <3> QED BY <3>4, <3>5
    <2> QED BY <2>1, <2>2, <2>3
  <1>4. CASE ReadFails        BY <1>4 DEF ReadFails
  <1>5. CASE TryWaitRunning \/ TryWaitFails
    BY <1>5 DEF TryWaitRunning, TryWaitFails
  <1>6. CASE Sleep            BY <1>6 DEF Sleep
  <1>7. CASE GiveUp \/ KillFails \/ Reap
    BY <1>7 DEF GiveUp, KillFails, Reap
  <1>8. CASE ChildChecks
    <2>1. next \in 1 .. MaxFiles /\ next' = next + 1
      BY <1>8 DEF ChildChecks
    <2>2. ClamTypeOK'
      BY <1>8, <2>1 DEF ChildChecks
    <2>3. VerdictIsFinal'
      BY <1>8 DEF ChildChecks
    <2>4. PipesAreExact'
      <3>1. \A f \in Checked : f < next' <=> f < next \/ f = next
        BY <2>1
      <3>2. CASE next \in unreadable
        BY <1>8, <3>1, <3>2 DEF ChildChecks
      <3>3. CASE next \notin unreadable
        BY <1>8, <3>1, <3>3 DEF ChildChecks
      <3> QED BY <3>2, <3>3
    <2> QED BY <2>2, <2>3, <2>4
  <1>9. CASE ChildEnds        BY <1>9 DEF ChildEnds
  <1>10. CASE ChildCrashes \/ LeftChildEnds
    BY <1>10 DEF ChildCrashes, LeftChildEnds
  <1> QED BY <1>1, <1>2, <1>3, <1>4, <1>5, <1>6, <1>7, <1>8, <1>9, <1>10 DEF ClamNext

(* A step of one part leaves the others as they are. *)
LEMMA WinNextIInv == WinIInv /\ [WinNext]_winVars => WinIInv'
  <1> SUFFICES ASSUME WinIInv, [WinNext]_winVars PROVE WinIInv'
    OBVIOUS
  <1>1. ASSUME UNCHANGED autoVars PROVE AutoTypeOK' /\ AutoIInv'
    <2>1. AutoTypeOK'
      BY <1>1 DEF WinIInv, WinTypeOK, autoVars, AutoTypeOK
    <2>2. ASSUME NEW w \in Windows PROVE Informed(w)'
      <3>1. Informed(w)
        BY DEF WinIInv, AutoIInv
      <3> QED BY <1>1, <3>1 DEF autoVars, Informed, RegisteredSince
    <2> QED BY <2>1, <2>2 DEF AutoIInv
  <1>2. UNCHANGED baseVars =>
          BaseTypeOK' /\ TextIsReport' /\ AnswersCompareReports' /\ OneIsWhole'
    BY DEF WinIInv, WinTypeOK, baseVars, BaseTypeOK, TextIsReport, AnswersCompareReports,
           Report, OneIsWhole
  <1>3. UNCHANGED clamVars => ClamTypeOK' /\ PipesAreExact' /\ VerdictIsFinal'
    BY DEF WinIInv, WinTypeOK, clamVars, ClamTypeOK, PipesAreExact, VerdictIsFinal,
           VerdictIsComplete, NoChildLeft, Checked
  <1>4. CASE AutomationStep
    BY <1>2, <1>3, <1>4, AutoStepIInv DEF AutomationStep, WinIInv, WinTypeOK
  <1>5. CASE BaselineStep
    BY <1>1, <1>3, <1>5, BaseStepIInv DEF BaselineStep, WinIInv, WinTypeOK
  <1>6. CASE ClamStep
    BY <1>1, <1>2, <1>6, ClamStepIInv DEF ClamStep, WinIInv, WinTypeOK
  <1>7. CASE UNCHANGED winVars
    BY <1>1, <1>2, <1>3, <1>7 DEF winVars, WinIInv, WinTypeOK
  <1> QED BY <1>4, <1>5, <1>6, <1>7 DEF WinNext

(* The invariant holds whatever the user, other windows, Windows and        *)
(* clamscan do.                                                             *)
THEOREM WinInductiveInvariant == WinSpec => []WinIInv
  BY InitWinIInv, WinNextIInv, PTL DEF WinSpec

-----------------------------------------------------------------------------
(* The variables of the three parts keep their types, the counters of polls *)
(* and of files their bounds.                                               *)
THEOREM WinTypeCorrect == WinSpec => []WinTypeOK
  <1>1. WinIInv => WinTypeOK BY DEF WinIInv
  <1> QED BY WinInductiveInvariant, <1>1, PTL

(* However many windows of however many copies toggle the same setting,     *)
(* each tells what it did and what was there, and removes what another copy *)
(* registered only in the gap after its query (automation.rs:14-146).       *)
THEOREM WindowsTellTheTruth == WinSpec => ToldIsTrue
  <1>1. WinIInv /\ [WinNext]_winVars => [ToldOfToggle /\ ToldOfStatus]_winVars
    <2> SUFFICES ASSUME WinIInv, WinNext PROVE ToldOfToggle /\ ToldOfStatus
      OBVIOUS
    <2> USE DEF ToldOfToggle, ToldOfStatus, Told
    <2>1. CASE AutomationStep
      <3> PICK w \in Windows :
            \/ Click(w, "toggle") \/ Click(w, "status")
            \/ QueryToggle(w) \/ QueryStatus(w) \/ QueryExists(w)
            \/ QueryFails(w) \/ NoPath(w)
            \/ Delete(w) \/ Add(w) \/ ChangeFails(w)
        BY <2>1 DEF AutomationStep, AutoNext
      <3> USE DEF WinIInv, WinTypeOK, AutoTypeOK, AutoIInv, Informed, Goes, Tells, Sees, Looks,
                 Matches
      <3>1. CASE Click(w, "toggle") \/ Click(w, "status")  BY <3>1 DEF Click
      <3>2. CASE QueryToggle(w)   BY <3>2 DEF QueryToggle
      <3>3. CASE QueryStatus(w)   BY <3>3 DEF QueryStatus
      <3>4. CASE QueryExists(w)   BY <3>4 DEF QueryExists
      <3>5. CASE QueryFails(w)    BY <3>5 DEF QueryFails
      <3>6. CASE NoPath(w)        BY <3>6 DEF NoPath
      <3>7. CASE Delete(w)
        <4>1. Informed(w) /\ Path[w] # "none"
          BY AutomationAssumption DEF Paths
        <4>2. CASE entry = "none"
          BY <3>7, <4>1, <4>2 DEF Delete
        <4>3. CASE entry # "none"
          BY <3>7, <4>1, <4>3 DEF Delete, Changes
        <4> QED BY <4>2, <4>3
      <3>8. CASE Add(w)           BY <3>8 DEF Add, Changes
      <3>9. CASE ChangeFails(w)   BY <3>9 DEF ChangeFails
      <3> QED BY <3>1, <3>2, <3>3, <3>4, <3>5, <3>6, <3>7, <3>8, <3>9
    <2>2. CASE BaselineStep \/ ClamStep
      BY <2>2 DEF BaselineStep, ClamStep, autoVars
    <2> QED BY <2>1, <2>2 DEF WinNext
  <1> QED BY WinInductiveInvariant, <1>1, PTL DEF WinSpec, ToldIsTrue

(* What a comparison with a complete file says is whether the scanner       *)
(* reported the same of the machine of then as of the one of now, whatever  *)
(* was saved, failed and was cut off in between (baseline.rs:56-92).  What  *)
(* the reports show of the machines follows below.                          *)
THEOREM ComparisonsAreOfReports == WinSpec =>
    [](told.state = "whole" =>
         /\ told.answer \in {"same", "changed"}
         /\ told.answer = "same" <=> Report(told.then) = Report(told.now))
  <1>1. WinIInv =>
          (told.state = "whole" =>
             /\ told.answer \in {"same", "changed"}
             /\ told.answer = "same" <=> Report(told.then) = Report(told.now))
    BY DEF WinIInv, AnswersCompareReports
  <1> QED BY WinInductiveInvariant, <1>1, PTL

(* Once a baseline was saved, one failure or kill in later saves leaves a   *)
(* complete one, for whatever is saved (baseline.rs:9-54).                  *)
THEOREM BaselineSurvives == WinSpec => []SnapshotKept
  <1>1. WinIInv => SnapshotKept
    BY DEF WinIInv, OneIsWhole, SnapshotKept
  <1> QED BY WinInductiveInvariant, <1>1, PTL

(* Unless clamscan crashed, clean and found rest on all the files that were *)
(* checked and could be read, and clean says that all could; no clamscan is *)
(* left running unless try_wait failed: for every number of files, size of  *)
(* the pipe and time limit (clam_bridge.rs:47-63, 274-293).                 *)
THEOREM VerdictsAreFinal == WinSpec => []VerdictIsFinal
  <1>1. WinIInv => VerdictIsFinal BY DEF WinIInv
  <1> QED BY WinInductiveInvariant, <1>1, PTL

-----------------------------------------------------------------------------
(* ScanReturns without its fairness: how many steps the worker has before   *)
(* it at most until it has an answer, whatever the child does.              *)
WaitsLeft ==
  IF poll = "idle" THEN 0
  ELSE IF poll = "reap" THEN 1
  ELSE 2 * (Timeout - polls) + (IF poll = "wait" THEN 3 ELSE 2)

LEMMA WaitsAreFinite == ClamTypeOK => WaitsLeft \in Nat
  <1> SUFFICES ASSUME ClamTypeOK PROVE WaitsLeft \in Nat
    OBVIOUS
  <1>1. Timeout \in Nat /\ polls \in 0 .. Timeout
    BY ClamScanAssumption DEF ClamTypeOK
  <1> QED BY <1>1 DEF WaitsLeft

(* What one step does to the worker that waits. *)
LEMMA WorkerNears ==
  ASSUME ClamTypeOK, poll # "idle", WinNext
  PROVE  /\ WaitsLeft' <= WaitsLeft
         /\ ClamWorker => WaitsLeft' < WaitsLeft
  <1>1. /\ Timeout \in Nat /\ polls \in 0 .. Timeout /\ poll \in {"wait", "elapsed", "reap"}
        /\ WaitsLeft \in Nat
    BY ClamScanAssumption, WaitsAreFinite DEF ClamTypeOK
  <1>2. CASE TryWaitEnded \/ ReadFails \/ TryWaitFails \/ GiveUp \/ KillFails \/ Reap
    BY <1>1, <1>2 DEF TryWaitEnded, ReadFails, TryWaitFails, GiveUp, KillFails, Reap, WaitsLeft
  <1>3. CASE TryWaitRunning
    BY <1>1, <1>3 DEF TryWaitRunning, WaitsLeft
  <1>4. CASE Sleep
    BY <1>1, <1>4 DEF Sleep, WaitsLeft
  <1>5. CASE ~ClamWorker
    <2>1. UNCHANGED <<poll, polls>>
      BY <1>5 DEF WinNext, AutomationStep, BaselineStep, ClamStep, clamVars, ClamNext, ClamWorker,
             ScanNothing, ScanCandidates, ChildChecks, ChildEnds, ChildCrashes,
             LeftChildEnds, ChildUnchanged
    <2> QED BY <1>1, <1>5, <2>1 DEF WaitsLeft
  <1> QED BY <1>2, <1>3, <1>4, <1>5 DEF ClamWorker

(* A full pipe can keep the child for ever, but not the worker: nothing     *)
(* that happens while it waits gives it more to do, each of its own steps   *)
(* less (clam_bridge.rs:274-293).                                           *)
THEOREM WorkerGetsNearer == WinSpec =>
    [][poll # "idle" => /\ WaitsLeft' <= WaitsLeft
                        /\ ClamWorker => WaitsLeft' < WaitsLeft]_winVars
  <1>1. WinIInv /\ [WinNext]_winVars =>
          [poll # "idle" => /\ WaitsLeft' <= WaitsLeft
                            /\ ClamWorker => WaitsLeft' < WaitsLeft]_winVars
    BY WorkerNears DEF WinIInv, WinTypeOK
  <1> QED BY WinInductiveInvariant, <1>1, PTL DEF WinSpec

(* And one of its steps can be taken while it waits, the child being there  *)
(* to be asked, killed or read, unless kill() has failed and it waits for   *)
(* the end of a child that goes on (clam_bridge.rs:277-290).                *)
THEOREM WorkerIsNeverStuck == WinSpec =>
    [](poll # "idle" =>
         \/ poll = "wait" /\ child \in {"running", "ended"}
         \/ poll = "elapsed" /\ polls \in 0 .. Timeout
         \/ poll = "reap" /\ child \in {"running", "ended"})
  <1>1. WinIInv =>
          (poll # "idle" =>
             \/ poll = "wait" /\ child \in {"running", "ended"}
             \/ poll = "elapsed" /\ polls \in 0 .. Timeout
             \/ poll = "reap" /\ child \in {"running", "ended"})
    BY DEF WinIInv, WinTypeOK, ClamTypeOK, PipesAreExact
  <1> QED BY WinInductiveInvariant, <1>1, PTL

-----------------------------------------------------------------------------
(* What the reports show of the machines.  Select is a recursive function   *)
(* on the texts; the facts about it are proved by induction over the        *)
(* numbers, which WellFoundedInduction gives for sets.                      *)

(* A set of numbers that is not empty has a least one. *)
LEMMA LeastNumber ==
  ASSUME NEW U, U \subseteq Nat, U # {}
  PROVE  \E n \in U : \A k \in U : ~(k < n)
  <1> DEFINE R == OpToRel(<, Nat)
  <1>1. IsWellFoundedOn(R, Nat)
    BY NatLessThanWellFounded
  <1>2. R = {p \in Nat \X Nat : p[1] < p[2]}
    BY Zenon DEF OpToRel
  <1> HIDE DEF R
  <1>3. PICK n \in U : \A k \in U : ~(<<k, n>> \in R)
    BY <1>1, WFMin
  <1> QED BY <1>2, <1>3

(* Induction over the numbers, for a set instead of a predicate.            *)
LEMMA SetInduction ==
  ASSUME NEW T, 0 \in T, \A n \in Nat : n \in T => n + 1 \in T
  PROVE  Nat \subseteq T
  <1> SUFFICES ASSUME Nat \ T # {} PROVE FALSE
    OBVIOUS
  <1>1. PICK n \in Nat \ T : \A k \in Nat \ T : ~(k < n)
    <2>1. Nat \ T \subseteq Nat
      OBVIOUS
    <2> QED BY <2>1, LeastNumber
  <1>2. n # 0 /\ n - 1 \in Nat /\ n - 1 < n /\ (n - 1) + 1 = n
    OBVIOUS
  <1> QED BY <1>1, <1>2

(* The recursive function of Select. *)
Selects(f, n, s, K) ==
  f = [i \in 0 .. n |-> IF i = 0 THEN <<>>
                        ELSE IF s[i] \in K THEN Append(f[i - 1], s[i]) ELSE f[i - 1]]

(* There is such a function for every length. *)
LEMMA SelectsExists ==
  ASSUME NEW s, NEW K
  PROVE  \A n \in Nat : \E f : Selects(f, n, s, K)
  <1> DEFINE T == {n \in Nat : \E f : Selects(f, n, s, K)}
  <1>1. 0 \in T
    <2> DEFINE f == [i \in 0 .. 0 |-> <<>>]
    <2>1. Selects(f, 0, s, K)
      BY DEF Selects
    <2> QED BY <2>1
  <1>2. ASSUME NEW n \in T PROVE n + 1 \in T
    <2>1. PICK f : Selects(f, n, s, K)
      OBVIOUS
    <2> DEFINE g == [i \in 0 .. n + 1 |->
                       IF i <= n THEN f[i]
                       ELSE IF s[i] \in K THEN Append(f[n], s[i]) ELSE f[n]]
    <2>2. \A i \in 0 .. n : f[i] = IF i = 0 THEN <<>>
                                   ELSE IF s[i] \in K THEN Append(f[i - 1], s[i]) ELSE f[i - 1]
      BY <2>1 DEF Selects
    <2>3. \A i \in 0 .. n + 1 :
            g[i] = IF i = 0 THEN <<>>
                   ELSE IF s[i] \in K THEN Append(g[i - 1], s[i]) ELSE g[i - 1]
      BY <2>2
    <2>4. Selects(g, n + 1, s, K)
      BY <2>3 DEF Selects
    <2> QED BY <2>4
  <1> HIDE DEF T
  <1>3. Nat \subseteq T
    BY <1>1, <1>2, SetInduction
  <1> QED BY <1>3 DEF T

(* Select is the last value of one. *)
LEMMA SelectIs ==
  ASSUME NEW E, NEW s \in Seq(E), NEW K
  PROVE  \E f : Selects(f, Len(s), s, K) /\ Select(s, K) = f[Len(s)]
  <1>1. \E f : Selects(f, Len(s), s, K)
    <2>1. Len(s) \in Nat
      OBVIOUS
    <2> QED BY <2>1, SelectsExists
  <1> DEFINE kept == CHOOSE f : Selects(f, Len(s), s, K)
  <1>2. Selects(kept, Len(s), s, K)
    BY <1>1
  <1>3. Select(s, K) = kept[Len(s)]
    BY DEF Select, Selects
  <1> QED BY <1>2, <1>3

(* Two of them agree on what they have both seen. *)
LEMMA SelectsAgree ==
  ASSUME NEW s, NEW t, NEW K, NEW n \in Nat, NEW m \in Nat, NEW f, NEW g,
         n <= m, Selects(f, n, s, K), Selects(g, m, t, K),
         \A i \in 1 .. n : s[i] = t[i]
  PROVE  f[n] = g[n]
  <1> DEFINE T == {i \in Nat : i <= n => f[i] = g[i]}
  <1>1. \A i \in 0 .. n : f[i] = IF i = 0 THEN <<>>
                                 ELSE IF s[i] \in K THEN Append(f[i - 1], s[i]) ELSE f[i - 1]
    BY DEF Selects
  <1>2. \A i \in 0 .. m : g[i] = IF i = 0 THEN <<>>
                                 ELSE IF t[i] \in K THEN Append(g[i - 1], t[i]) ELSE g[i - 1]
    BY DEF Selects
  <1>3. 0 \in T
    BY <1>1, <1>2
  <1>4. ASSUME NEW i \in T PROVE i + 1 \in T
    <2> SUFFICES ASSUME i + 1 <= n PROVE f[i + 1] = g[i + 1]
      OBVIOUS
    <2>1. f[i] = g[i] /\ i + 1 \in 0 .. n /\ i + 1 \in 0 .. m /\ i + 1 \in 1 .. n
          /\ (i + 1) - 1 = i /\ i + 1 # 0
      OBVIOUS
    <2> QED BY <1>1, <1>2, <2>1
  <1> HIDE DEF T
  <1>5. Nat \subseteq T
    BY <1>3, <1>4, SetInduction
  <1> QED BY <1>5 DEF T

(* Nothing is selected from an empty text. *)
LEMMA SelectEmpty ==
  ASSUME NEW K
  PROVE  Select(<<>>, K) = <<>>
  <1>1. <<>> \in Seq({}) /\ Len(<<>>) = 0
    OBVIOUS
  <1>2. PICK f : Selects(f, 0, <<>>, K) /\ Select(<<>>, K) = f[0]
    BY <1>1, SelectIs
  <1>3. f[0] = <<>>
    BY <1>2 DEF Selects
  <1> QED BY <1>2, <1>3

(* How the selection grows with the text: all that is used of Select below. *)
LEMMA SelectAppend ==
  ASSUME NEW E, NEW s \in Seq(E), NEW e \in E, NEW K
  PROVE  Select(Append(s, e), K) = IF e \in K THEN Append(Select(s, K), e) ELSE Select(s, K)
  <1> DEFINE t == Append(s, e)
  <1>1. t \in Seq(E) /\ Len(t) = Len(s) + 1 /\ t[Len(s) + 1] = e /\ Len(s) \in Nat
        /\ \A i \in 1 .. Len(s) : s[i] = t[i]
    OBVIOUS
  <1> HIDE DEF t
  <1>2. PICK f : Selects(f, Len(s), s, K) /\ Select(s, K) = f[Len(s)]
    BY SelectIs
  <1>3. PICK g : Selects(g, Len(t), t, K) /\ Select(t, K) = g[Len(t)]
    BY <1>1, SelectIs
  <1>4. f[Len(s)] = g[Len(s)]
    BY <1>1, <1>2, <1>3, SelectsAgree
  <1>5. g[Len(s) + 1] = IF e \in K THEN Append(g[Len(s)], e) ELSE g[Len(s)]
    <2> DEFINE n == Len(s) + 1
    <2>1. g = [i \in 0 .. n |-> IF i = 0 THEN <<>>
                                ELSE IF t[i] \in K THEN Append(g[i - 1], t[i]) ELSE g[i - 1]]
      BY <1>1, <1>3 DEF Selects
    <2>2. n \in 0 .. n /\ n # 0 /\ n - 1 = Len(s) /\ t[n] = e
      BY <1>1
    <2> HIDE DEF n
    <2>3. g[n] = IF t[n] \in K THEN Append(g[n - 1], t[n]) ELSE g[n - 1]
      BY <2>1, <2>2
    <2> QED BY <2>2, <2>3 DEF n
  <1> QED BY <1>1, <1>2, <1>3, <1>4, <1>5 DEF t

(* Induction over the texts. *)
LEMMA SeqInduction ==
  ASSUME NEW E, NEW T, <<>> \in T,
         \A s \in Seq(E), e \in E : s \in T => Append(s, e) \in T
  PROVE  Seq(E) \subseteq T
  <1> DEFINE N == {n \in Nat : \A s \in Seq(E) : Len(s) = n => s \in T}
  <1>1. 0 \in N
    OBVIOUS
  <1>2. ASSUME NEW n \in N PROVE n + 1 \in N
    <2> SUFFICES ASSUME NEW s \in Seq(E), Len(s) = n + 1 PROVE s \in T
      OBVIOUS
    <2> DEFINE r == SubSeq(s, 1, n)
    <2>1. r \in Seq(E) /\ Len(r) = n /\ s[n + 1] \in E
      OBVIOUS
    <2>2. s = Append(r, s[n + 1])
      OBVIOUS
    <2> QED BY <2>1, <2>2
  <1> HIDE DEF N
  <1>3. Nat \subseteq N
    BY <1>1, <1>2, SetInduction
  <1> QED BY <1>3 DEF N

(* A selection is a text that is not longer. *)
LEMMA SelectType ==
  ASSUME NEW E, NEW K
  PROVE  \A s \in Seq(E) : /\ Select(s, K) \in Seq(E)
                           /\ Len(Select(s, K)) <= Len(s)
  <1> DEFINE P(s) == Select(s, K) \in Seq(E) /\ Len(Select(s, K)) <= Len(s)
  <1>1. P(<<>>)
    <2>1. Select(<<>>, K) = <<>>
      BY SelectEmpty
    <2>2. <<>> \in Seq(E) /\ Len(<<>>) <= Len(<<>>)
      OBVIOUS
    <2> QED BY <2>1, <2>2, Zenon
  <1>2. ASSUME NEW s \in Seq(E), NEW e \in E, P(s) PROVE P(Append(s, e))
    <2>1. Select(Append(s, e), K) = IF e \in K THEN Append(Select(s, K), e) ELSE Select(s, K)
      BY SelectAppend
    <2> QED BY <1>2, <2>1
  <1> HIDE DEF P
  <1>3. Seq(E) \subseteq {s \in Seq(E) : P(s)}
    <2> DEFINE T == {s \in Seq(E) : P(s)}
    <2>1. <<>> \in T /\ \A s \in Seq(E), e \in E : s \in T => Append(s, e) \in T
      BY <1>1, <1>2
    <2> HIDE DEF T
    <2> QED BY <2>1, SeqInduction DEF T
  <1> QED BY <1>3 DEF P

(* A selection from a selection is one selection. *)
LEMMA SelectTwice ==
  ASSUME NEW E, NEW K, NEW L
  PROVE  \A s \in Seq(E) : Select(Select(s, K), L) = Select(s, K \cap L)
  <1> DEFINE P(s) == Select(Select(s, K), L) = Select(s, K \cap L)
  <1>1. P(<<>>)
    <2>1. Select(<<>>, K) = <<>> /\ Select(<<>>, L) = <<>> /\ Select(<<>>, K \cap L) = <<>>
      BY SelectEmpty
    <2> QED BY <2>1
  <1>2. ASSUME NEW s \in Seq(E), NEW e \in E, P(s) PROVE P(Append(s, e))
    <2>1. Select(s, K) \in Seq(E)
      BY SelectType
    <2>2. CASE e \in K
      <3>1. Select(Append(s, e), K) = Append(Select(s, K), e)
        BY <2>2, SelectAppend
      <3>2. Select(Append(Select(s, K), e), L) =
              IF e \in L THEN Append(Select(Select(s, K), L), e) ELSE Select(Select(s, K), L)
        BY <2>1, SelectAppend
      <3>3. Select(Append(s, e), K \cap L) =
              IF e \in L THEN Append(Select(s, K \cap L), e) ELSE Select(s, K \cap L)
        BY <2>2, SelectAppend
      <3> QED BY <1>2, <3>1, <3>2, <3>3
    <2>3. CASE e \notin K
      BY <1>2, <2>3, SelectAppend
    <2> QED BY <2>2, <2>3
  <1> HIDE DEF P
  <1>3. Seq(E) \subseteq {s \in Seq(E) : P(s)}
    <2> DEFINE T == {s \in Seq(E) : P(s)}
    <2>1. <<>> \in T /\ \A s \in Seq(E), e \in E : s \in T => Append(s, e) \in T
      BY <1>1, <1>2
    <2> HIDE DEF T
    <2> QED BY <2>1, SeqInduction DEF T
  <1> QED BY <1>3 DEF P

(* The entries of a text, without their order. *)
Elements(s) == {s[i] : i \in DOMAIN s}

(* The entries of a longer text. *)
LEMMA ElementsOf ==
  /\ Elements(<<>>) = {}
  /\ \A E : \A s \in Seq(E), e \in E : Elements(Append(s, e)) = Elements(s) \cup {e}
  <1>1. Elements(<<>>) = {}
    BY DEF Elements
  <1>2. ASSUME NEW E, NEW s \in Seq(E), NEW e \in E
        PROVE  Elements(Append(s, e)) = Elements(s) \cup {e}
    <2>1. DOMAIN s = 1 .. Len(s) /\ Len(s) \in Nat
      OBVIOUS
    <2>2. DOMAIN Append(s, e) = 1 .. Len(s) + 1
      OBVIOUS
    <2>3. \A i \in 1 .. Len(s) : Append(s, e)[i] = s[i]
      OBVIOUS
    <2>4. Append(s, e)[Len(s) + 1] = e
      OBVIOUS
    <2> DEFINE t == Append(s, e)
    <2> HIDE DEF t
    <2>5. Elements(t) \subseteq Elements(s) \cup {e}
      BY <2>1, <2>2, <2>3, <2>4 DEF Elements, t
    <2>6. Elements(s) \cup {e} \subseteq Elements(t)
      BY <2>1, <2>2, <2>3, <2>4 DEF Elements, t
    <2> QED BY <2>5, <2>6 DEF t
  <1> QED BY <1>1, <1>2

(* The entries of a selection. *)
LEMMA SelectElements ==
  ASSUME NEW E, NEW K
  PROVE  \A s \in Seq(E) : Elements(Select(s, K)) = Elements(s) \cap K
  <1> DEFINE P(s) == Elements(Select(s, K)) = Elements(s) \cap K
  <1>1. P(<<>>)
    <2>1. Select(<<>>, K) = <<>> /\ Elements(<<>>) = {}
      BY SelectEmpty, ElementsOf
    <2> QED BY <2>1
  <1>2. ASSUME NEW s \in Seq(E), NEW e \in E, P(s) PROVE P(Append(s, e))
    <2>1. Select(s, K) \in Seq(E)
      BY SelectType
    <2>2. Elements(Append(s, e)) = Elements(s) \cup {e}
      BY ElementsOf
    <2>3. CASE e \in K
      <3>1. Elements(Append(Select(s, K), e)) = Elements(Select(s, K)) \cup {e}
        BY <2>1, ElementsOf
      <3>2. Select(Append(s, e), K) = Append(Select(s, K), e)
        BY <2>3, SelectAppend
      <3> QED BY <1>2, <2>2, <2>3, <3>1, <3>2
    <2>4. CASE e \notin K
      <3>1. Select(Append(s, e), K) = Select(s, K)
        BY <2>4, SelectAppend
      <3> QED BY <1>2, <2>2, <2>4, <3>1
    <2> QED BY <2>3, <2>4
  <1> HIDE DEF P
  <1>3. Seq(E) \subseteq {s \in Seq(E) : P(s)}
    <2> DEFINE T == {s \in Seq(E) : P(s)}
    <2>1. <<>> \in T /\ \A s \in Seq(E), e \in E : s \in T => Append(s, e) \in T
      BY <1>1, <1>2
    <2> HIDE DEF T
    <2> QED BY <2>1, SeqInduction DEF T
  <1> QED BY <1>3 DEF P

(* What is selected from the beginning of a text is the beginning of what   *)
(* is selected from it; here only that nothing follows if they are equally  *)
(* long.                                                                    *)
LEMMA SelectPrefix ==
  ASSUME NEW E, NEW K
  PROVE  \A s \in Seq(E) : \A n \in 0 .. Len(s) :
           /\ Len(Select(SubSeq(s, 1, n), K)) <= Len(Select(s, K))
           /\ Len(Select(SubSeq(s, 1, n), K)) = Len(Select(s, K)) =>
                Select(SubSeq(s, 1, n), K) = Select(s, K)
  <1> DEFINE P(s) == \A n \in 0 .. Len(s) :
               /\ Len(Select(SubSeq(s, 1, n), K)) <= Len(Select(s, K))
               /\ Len(Select(SubSeq(s, 1, n), K)) = Len(Select(s, K)) =>
                    Select(SubSeq(s, 1, n), K) = Select(s, K)
  <1>1. P(<<>>)
    <2>1. \A n \in 0 .. Len(<<>>) : SubSeq(<<>>, 1, n) = <<>>
      OBVIOUS
    <2>2. Select(<<>>, K) = <<>> /\ Len(<<>>) <= Len(<<>>)
      BY SelectEmpty
    <2> QED BY <2>1, <2>2, Zenon
  <1>2. ASSUME NEW s \in Seq(E), NEW e \in E, P(s) PROVE P(Append(s, e))
    <2> SUFFICES ASSUME NEW n \in 0 .. Len(Append(s, e))
            PROVE /\ Len(Select(SubSeq(Append(s, e), 1, n), K)) <= Len(Select(Append(s, e), K))
                  /\ Len(Select(SubSeq(Append(s, e), 1, n), K)) = Len(Select(Append(s, e), K)) =>
                       Select(SubSeq(Append(s, e), 1, n), K) = Select(Append(s, e), K)
      OBVIOUS
    <2>1. CASE n \in 0 .. Len(s)
      <3>1. SubSeq(Append(s, e), 1, n) = SubSeq(s, 1, n) /\ SubSeq(s, 1, n) \in Seq(E)
        BY <2>1
      <3> DEFINE A == Select(SubSeq(s, 1, n), K)
                 B == Select(s, K)
      <3>2. A \in Seq(E) /\ B \in Seq(E)
        BY <3>1, SelectType
      <3>3. Len(A) <= Len(B) /\ (Len(A) = Len(B) => A = B)
        BY <1>2, <2>1
      <3> HIDE DEF A, B
      <3>4. CASE e \in K
        <4>1. Select(Append(s, e), K) = Append(B, e) /\ Len(Append(B, e)) = Len(B) + 1
          BY <3>2, <3>4, SelectAppend DEF B
        <4>2. Len(A) <= Len(B) + 1 /\ Len(A) # Len(B) + 1
          BY <3>2, <3>3
        <4>3. Len(Select(SubSeq(Append(s, e), 1, n), K)) = Len(A)
          BY <3>1 DEF A
        <4>4. Len(Select(Append(s, e), K)) = Len(B) + 1
          BY <4>1
        <4> QED BY <4>2, <4>3, <4>4
      <3>5. CASE e \notin K
        <4>1. Select(Append(s, e), K) = B
          BY <3>5, SelectAppend DEF B
        <4>2. Select(SubSeq(Append(s, e), 1, n), K) = A
          BY <3>1 DEF A
        <4> QED BY <3>3, <4>1, <4>2
      <3> QED BY <3>4, <3>5
    <2>2. CASE n = Len(s) + 1
      <3>1. SubSeq(Append(s, e), 1, n) = Append(s, e) /\ Append(s, e) \in Seq(E)
        BY <2>2
      <3>2. Len(Select(Append(s, e), K)) \in Nat
        BY <3>1, SelectType
      <3>3. Len(Select(Append(s, e), K)) <= Len(Select(Append(s, e), K))
        BY <3>2
      <3> QED BY <3>1, <3>3, Zenon
    <2> QED BY <2>1, <2>2
  <1> HIDE DEF P
  <1>3. Seq(E) \subseteq {s \in Seq(E) : P(s)}
    <2> DEFINE T == {s \in Seq(E) : P(s)}
    <2>1. <<>> \in T /\ \A s \in Seq(E), e \in E : s \in T => Append(s, e) \in T
      BY <1>1, <1>2
    <2> HIDE DEF T
    <2> QED BY <2>1, SeqInduction DEF T
  <1> QED BY <1>3 DEF P

(* Texts that agree on C agree on every selection from it. *)
LEMMA SameEntries ==
  ASSUME NEW s \in Seq(TextEntries), NEW t \in Seq(TextEntries), NEW C,
         Select(s, C) = Select(t, C)
  PROVE  \A K : K \subseteq C => Select(s, K) = Select(t, K)
  <1> SUFFICES ASSUME NEW K, K \subseteq C PROVE Select(s, K) = Select(t, K)
    OBVIOUS
  <1>1. C \cap K = K
    OBVIOUS
  <1>2. /\ Select(Select(s, C), K) = Select(s, C \cap K)
        /\ Select(Select(t, C), K) = Select(t, C \cap K)
    BY SelectTwice
  <1> QED BY <1>1, <1>2

(* The empty selections. *)
LEMMA OfNothing ==
  /\ On(<<>>) = <<>> /\ Bad(<<>>) = <<>> /\ Good(<<>>) = <<>>
  /\ Marked(<<>>) = <<>> /\ Plain(<<>>) = <<>>
  BY SelectEmpty DEF On, Bad, Good, Marked, Plain

(* The scanners that also count entries of another kind, or look at nothing *)
(* if something failed.                                                     *)
LookFurther ==
  {"hosts", "browser_extensions", "browser_notifications", "extension_metadata",
   "firefox_extensions", "notification_origins", "ie_search_and_storage", "databases"}

(* Texts that agree on what is on are reported alike by the others.         *)
LEMMA SameReports ==
  ASSUME NEW s \in Seq(TextEntries), NEW t \in Seq(TextEntries),
         Select(s, OnOnes) = Select(t, OnOnes), (s = <<>>) = (t = <<>>)
  PROVE  /\ On(s) = On(t) /\ Bad(s) = Bad(t)
         /\ Bad(Plain(s)) = Bad(Plain(t)) /\ On(Plain(s)) = On(Plain(t))
         /\ \A c \in Scanners \ LookFurther : Reports(s)[c] = Reports(t)[c]
  <1>1. \A K : K \subseteq OnOnes => Select(s, K) = Select(t, K)
    BY SameEntries
  <1>2. On(s) = On(t) /\ Bad(s) = Bad(t) /\ Good(s) = Good(t)
    <2>1. BadOnes \subseteq OnOnes /\ GoodOnes \subseteq OnOnes
      BY DEF OnOnes, BadOnes, GoodOnes
    <2> QED BY <1>1, <2>1 DEF On, Bad, Good
  <1>3. /\ Bad(Plain(s)) = Bad(Plain(t)) /\ On(Plain(s)) = On(Plain(t))
        /\ Bad(Marked(s)) = Bad(Marked(t)) /\ Good(Marked(s)) = Good(Marked(t))
    <2>1. \A K, L : L \subseteq OnOnes =>
            Select(Select(s, K), L) = Select(Select(t, K), L)
      <3> SUFFICES ASSUME NEW K, NEW L, L \subseteq OnOnes
                   PROVE  Select(Select(s, K), L) = Select(Select(t, K), L)
        OBVIOUS
      <3>1. K \cap L \subseteq OnOnes
        OBVIOUS
      <3>2. /\ Select(Select(s, K), L) = Select(s, K \cap L)
            /\ Select(Select(t, K), L) = Select(t, K \cap L)
        BY SelectTwice
      <3> QED BY <1>1, <3>1, <3>2
    <2>2. BadOnes \subseteq OnOnes /\ GoodOnes \subseteq OnOnes
      BY DEF OnOnes, BadOnes, GoodOnes
    <2> QED BY <2>1, <2>2 DEF On, Bad, Good, Plain, Marked
  <1> USE DEF Judge, JudgeAll, Totals, Readable, Patterns, Inventory
  <1>4. /\ ScanProxy(s) = ScanProxy(t)
        /\ ScanDns(s) = ScanDns(t)
        /\ ScanRegistryAutoruns(s) = ScanRegistryAutoruns(t)
        /\ ScanStartupFolders(s) = ScanStartupFolders(t)
        /\ ScanServices(s) = ScanServices(t)
        /\ ScanScheduledTasks(s) = ScanScheduledTasks(t)
    BY <1>2 DEF ScanProxy, ScanDns, ScanRegistryAutoruns, ScanStartupFolders,
                ScanServices, ScanScheduledTasks
  <1>5. /\ ScanServiceDlls(s) = ScanServiceDlls(t)
        /\ ScanIfeoDebuggers(s) = ScanIfeoDebuggers(t)
        /\ ScanBitsJobs(s) = ScanBitsJobs(t)
        /\ ScanWinsock(s) = ScanWinsock(t)
        /\ ScanWmiPersistence(s) = ScanWmiPersistence(t)
        /\ ScanBrowserPolicies(s) = ScanBrowserPolicies(t)
        /\ ScanEnvironment(s) = ScanEnvironment(t)
        /\ ScanFileAssociations(s) = ScanFileAssociations(t)
        /\ ScanUninstallEntries(s) = ScanUninstallEntries(t)
        /\ ScanBrowserShortcuts(s) = ScanBrowserShortcuts(t)
        /\ ScanIeElevationPolicy(s) = ScanIeElevationPolicy(t)
    BY <1>2, <1>3 DEF ScanServiceDlls, ScanIfeoDebuggers, ScanBitsJobs, ScanWinsock,
                ScanWmiPersistence, ScanBrowserPolicies, ScanEnvironment, ScanFileAssociations,
                ScanUninstallEntries, ScanBrowserShortcuts, ScanIeElevationPolicy
  <1>6. ScanUserCom(s) = ScanUserCom(t)
    BY <1>2 DEF ScanUserCom
  <1>7. /\ ScanActiveSetup(s) = ScanActiveSetup(t)
        /\ ScanHiddenExecutables(s) = ScanHiddenExecutables(t)
        /\ ScanFakeSystemProcesses(s) = ScanFakeSystemProcesses(t)
        /\ ScanNumericSystemFiles(s) = ScanNumericSystemFiles(t)
        /\ ScanGroupPolicyRegistry(s) = ScanGroupPolicyRegistry(t)
        /\ ScanServiceDrivers(s) = ScanServiceDrivers(t)
        /\ ScanAppPaths(s) = ScanAppPaths(t)
        /\ ScanFileSignatures(s) = ScanFileSignatures(t)
    BY <1>2 DEF ScanActiveSetup, ScanHiddenExecutables, ScanFakeSystemProcesses,
                ScanNumericSystemFiles, ScanGroupPolicyRegistry, ScanServiceDrivers,
                ScanAppPaths, ScanFileSignatures
  <1>8. ScanMachineCom(s) = ScanMachineCom(t)
    BY <1>2 DEF ScanMachineCom
  <1>9. /\ ScanProxyPac(s) = ScanProxyPac(t)
        /\ ScanFirewallRules(s) = ScanFirewallRules(t)
        /\ ScanPolicyAutoruns(s) = ScanPolicyAutoruns(t)
        /\ ScanSaferPolicy(s) = ScanSaferPolicy(t)
        /\ ScanSafebootOverrides(s) = ScanSafebootOverrides(t)
        /\ ScanMozillaPlugins(s) = ScanMozillaPlugins(t)
        /\ ScanIpsecPolicy(s) = ScanIpsecPolicy(t)
        /\ ScanAppcertDlls(s) = ScanAppcertDlls(t)
    BY <1>2 DEF ScanProxyPac, ScanFirewallRules, ScanPolicyAutoruns, ScanSaferPolicy,
                ScanSafebootOverrides, ScanMozillaPlugins, ScanIpsecPolicy, ScanAppcertDlls
  <1>10. ScanExecutionRestrictions(s) = ScanExecutionRestrictions(t)
    BY <1>2 DEF ScanExecutionRestrictions
  <1>11. ScanWinhttpProxy(s) = ScanWinhttpProxy(t)
    BY <1>2 DEF ScanWinhttpProxy
  <1>12. \A c \in Scanners \ LookFurther : Reports(s)[c] = Reports(t)[c]
    BY <1>4, <1>5, <1>6, <1>7, <1>8, <1>9, <1>10, <1>11 DEF Reports, Scanners, LookFurther
  <1> QED BY <1>2, <1>3, <1>12

(* The texts that no message is about leave the report as it is.            *)
LEMMA ReportsAreOfConcerns ==
  ASSUME scanner \in Scanners, NEW s \in Seq(TextEntries), NEW t \in Seq(TextEntries),
         Concerns(s) = Concerns(t), (s = <<>>) = (t = <<>>)
  PROVE  Normalize(Reports(s)[scanner]) = Normalize(Reports(t)[scanner])
  <1> DEFINE marked == IF scanner \in {"browser_extensions", "ie_search_and_storage"}
                         THEN MarkedOnes ELSE {}
             firefox == IF scanner = "firefox_extensions" THEN MarkedOnes \cup MoreOnes ELSE {}
             failed == IF scanner \in {"hosts", "browser_notifications", "notification_origins",
                                       "extension_metadata"}
                         THEN FailedOnes ELSE {}
             C == OnOnes \cup marked \cup firefox \cup failed
  <1>a. Concerns(s) = Select(s, C) /\ Concerns(t) = Select(t, C)
    BY DEF Concerns
  <1>b. /\ scanner \in {"browser_extensions", "ie_search_and_storage"} => marked = MarkedOnes
        /\ scanner = "firefox_extensions" => firefox = MarkedOnes \cup MoreOnes
        /\ scanner \in {"hosts", "browser_notifications", "notification_origins",
                        "extension_metadata"} => failed = FailedOnes
    OBVIOUS
  <1> HIDE DEF marked, firefox, failed
  <1>1. /\ OnOnes \subseteq C /\ Select(s, C) = Select(t, C)
        /\ scanner \in {"browser_extensions", "ie_search_and_storage",
                        "firefox_extensions"} => MarkedOnes \subseteq C
        /\ scanner = "firefox_extensions" => MoreOnes \subseteq C
        /\ scanner \in {"hosts", "browser_notifications", "notification_origins",
                        "extension_metadata"} => FailedOnes \subseteq C
    BY <1>a, <1>b
  <1> HIDE DEF C
  <1>2. \A K : K \subseteq C => Select(s, K) = Select(t, K)
    BY <1>1, SameEntries
  <1>3. /\ On(s) = On(t) /\ Bad(s) = Bad(t)
        /\ Bad(Plain(s)) = Bad(Plain(t)) /\ On(Plain(s)) = On(Plain(t))
        /\ \A c \in Scanners \ LookFurther : Reports(s)[c] = Reports(t)[c]
    BY <1>1, <1>2, SameReports
  <1>4. CASE scanner \notin LookFurther
    BY <1>3, <1>4
  <1>5. CASE scanner \in {"hosts", "browser_notifications", "notification_origins",
                          "extension_metadata"}
    <2>1. Failed(s) = Failed(t)
      BY <1>1, <1>2, <1>5 DEF Failed
    <2>2. /\ ScanHosts(s) = ScanHosts(t)
          /\ ScanBrowserNotifications(s) = ScanBrowserNotifications(t)
          /\ ScanNotificationOrigins(s) = ScanNotificationOrigins(t)
          /\ ScanExtensionMetadata(s) = ScanExtensionMetadata(t)
      BY <1>3, <2>1 DEF ScanHosts, ScanBrowserNotifications, ScanNotificationOrigins,
                        ScanExtensionMetadata
    <2>3. Reports(s)[scanner] = Reports(t)[scanner]
      BY <1>5, <2>2 DEF Reports
    <2> QED BY <2>3
  <1>6. CASE scanner \in {"browser_extensions", "ie_search_and_storage"}
    <2>1. Marked(s) = Marked(t)
      BY <1>1, <1>2, <1>6 DEF Marked
    <2>2. /\ ScanBrowserExtensions(s) = ScanBrowserExtensions(t)
          /\ ScanIeSearchAndStorage(s) = ScanIeSearchAndStorage(t)
      BY <1>3, <2>1 DEF ScanBrowserExtensions, ScanIeSearchAndStorage, JudgeAll, Totals
    <2>3. Reports(s)[scanner] = Reports(t)[scanner]
      BY <1>6, <2>2 DEF Reports
    <2> QED BY <2>3
  <1>7. CASE scanner = "firefox_extensions"
    <2>1. \A K : K \subseteq C => Select(Off(s), K) = Select(Off(t), K)
      <3> SUFFICES ASSUME NEW K, K \subseteq C PROVE Select(Off(s), K) = Select(Off(t), K)
        OBVIOUS
      <3>1. OffOnes \cap K \subseteq C
        OBVIOUS
      <3>2. /\ Select(Select(s, OffOnes), K) = Select(s, OffOnes \cap K)
            /\ Select(Select(t, OffOnes), K) = Select(t, OffOnes \cap K)
        BY SelectTwice
      <3> QED BY <1>2, <3>1, <3>2 DEF Off
    <2>2. Marked(Off(s)) = Marked(Off(t)) /\ More(Off(s)) = More(Off(t))
      BY <1>1, <1>7, <2>1 DEF Marked, More
    <2>3. ScanFirefox(s) = ScanFirefox(t)
      BY <1>3, <2>2 DEF ScanFirefox
    <2>4. Reports(s)[scanner] = Reports(t)[scanner]
      BY <1>7, <2>3 DEF Reports
    <2> QED BY <2>4
  <1>8. CASE scanner = "databases"
    <2>1. \A x, A : Normalize(Lines("db", x) \cup A) = Normalize(A)
      BY DEF Normalize, Lines
    <2> DEFINE hits(r) == InspectTexts(Bad(r))
               warnings(r) == {<<"warn", <<h.also, h.shown>>>> : h \in hits(r)}
               number(r) == IF hits(r) = {} THEN Says("ok")
                            ELSE Message("info", Cardinality(hits(r)))
    <2>2. \A r : ScanDatabases(r) = Lines("db", Marked(r)) \cup (warnings(r) \cup number(r))
      BY DEF ScanDatabases
    <2>3. warnings(s) = warnings(t) /\ number(s) = number(t)
      BY <1>3
    <2> HIDE DEF warnings, number
    <2>4. Normalize(ScanDatabases(s)) = Normalize(ScanDatabases(t))
      BY <2>1, <2>2, <2>3
    <2>5. Reports(s)[scanner] = ScanDatabases(s) /\ Reports(t)[scanner] = ScanDatabases(t)
      BY <1>8 DEF Reports
    <2> QED BY <2>4, <2>5
  <1> QED BY <1>4, <1>5, <1>6, <1>7, <1>8 DEF LookFurther

(* The messages of a report with a tag are the lines about some entries.    *)
Lists(report, tag, x) == \A m : (m \in report /\ m[1] = tag) <=> m \in Lines(tag, x)

(* Every message has its tag. *)
LEMMA TagsOf ==
  /\ \A tag, x, m : m \in Lines(tag, x) => m[1] = tag
  /\ \A tag, x, m : m \in Sources(tag, x) => m[1] = tag
  /\ \A tag, x, m : m \in Counts(tag, x) => m[1] = tag
  /\ \A tag, n, m : m \in Message(tag, n) => m[1] = tag
  /\ \A tag, m : m \in Says(tag) => m[1] = tag
  /\ \A tag, m : m \notin Lines(tag, <<>>)
  BY DEF Lines, Sources, Counts, Message, Says

(* A list that has room for all is not cut. *)
LEMMA FirstOfFew ==
  ASSUME NEW s \in Seq(TextEntries), NEW n \in Nat, Len(s) <= n
  PROVE  First(s, n) = s
  BY DEF First

(* The limits are numbers. *)
LEMMA Capped == \A n \in {4, 5, 6, 8, 12, 15, 20, 25, 30, 35} : Cap[n] \in Nat \ {0}
  BY CapAssumption

(* Selections from selections. *)
LEMMA Selections ==
  ASSUME NEW s \in Seq(TextEntries)
  PROVE  /\ On(s) \in Seq(TextEntries) /\ Bad(s) \in Seq(TextEntries)
         /\ Plain(s) \in Seq(TextEntries)
         /\ Bad(On(s)) = Bad(s) /\ Good(On(s)) = Good(s)
         /\ Bad(Plain(s)) = Plain(Bad(s))
         /\ s = <<>> => On(s) = <<>> /\ Bad(s) = <<>>
         /\ On(s) = <<>> => Bad(s) = <<>>
  <1>1. /\ On(s) \in Seq(TextEntries) /\ Bad(s) \in Seq(TextEntries)
        /\ Plain(s) \in Seq(TextEntries)
    BY SelectType DEF On, Bad, Plain
  <1>2. OnOnes \cap BadOnes = BadOnes /\ OnOnes \cap GoodOnes = GoodOnes
    BY DEF OnOnes, BadOnes, GoodOnes
  <1>3. Bad(On(s)) = Bad(s) /\ Good(On(s)) = Good(s)
    BY <1>2, SelectTwice DEF On, Bad, Good
  <1>4. Bad(Plain(s)) = Plain(Bad(s))
    <2> DEFINE K == PlainOnes \cap BadOnes
               L == BadOnes \cap PlainOnes
    <2>1. Select(Select(s, PlainOnes), BadOnes) = Select(s, K)
      BY SelectTwice
    <2>2. Select(Select(s, BadOnes), PlainOnes) = Select(s, L)
      BY SelectTwice
    <2>3. K = L
      OBVIOUS
    <2> HIDE DEF K, L
    <2> QED BY <2>1, <2>2, <2>3 DEF Plain, Bad
  <1> QED BY <1>1, <1>3, <1>4, OfNothing

(* What is listed of a text, and what it shows, is so of its entries. *)
LEMMA OfElements ==
  /\ \A tag, x : Lines(tag, x) = {<<tag, e.shown>> : e \in Elements(x)}
  /\ \A x : Shown(x) = {IF scanner = "databases" THEN e.also ELSE e.shown : e \in Elements(x)}
  /\ \A x : Groups(x) = {e.group : e \in Elements(x)}
  BY DEF Lines, Shown, Groups, Elements

(* What parts of a text show. *)
LEMMA ShownOfParts ==
  ASSUME NEW s \in Seq(TextEntries)
  PROVE  /\ Shown(On(s)) = Shown(Bad(s)) \cup Shown(Good(s))
         /\ Shown(On(s)) = Shown(Plain(On(s))) \cup Shown(Marked(On(s)))
         /\ Shown(Bad(s)) = Shown(Bad(Plain(s))) \cup Shown(Bad(Marked(s)))
  <1>1. \A K : \A r \in Seq(TextEntries) :
          Select(r, K) \in Seq(TextEntries) /\ Elements(Select(r, K)) = Elements(r) \cap K
    BY SelectType, SelectElements
  <1>2. /\ Elements(On(s)) = Elements(s) \cap OnOnes
        /\ Elements(Bad(s)) = Elements(s) \cap BadOnes
        /\ Elements(Good(s)) = Elements(s) \cap GoodOnes
        /\ Elements(Plain(On(s))) = Elements(s) \cap OnOnes \cap PlainOnes
        /\ Elements(Marked(On(s))) = Elements(s) \cap OnOnes \cap MarkedOnes
        /\ Elements(Bad(Plain(s))) = Elements(s) \cap PlainOnes \cap BadOnes
        /\ Elements(Bad(Marked(s))) = Elements(s) \cap MarkedOnes \cap BadOnes
    BY <1>1 DEF On, Bad, Good, Plain, Marked
  <1>3. /\ OnOnes = BadOnes \cup GoodOnes
        /\ OnOnes = (OnOnes \cap PlainOnes) \cup (OnOnes \cap MarkedOnes)
        /\ BadOnes = (PlainOnes \cap BadOnes) \cup (MarkedOnes \cap BadOnes)
    BY DEF OnOnes, BadOnes, GoodOnes, PlainOnes, MarkedOnes, TextEntries
  <1>4. /\ Elements(On(s)) = Elements(Bad(s)) \cup Elements(Good(s))
        /\ Elements(On(s)) = Elements(Plain(On(s))) \cup Elements(Marked(On(s)))
        /\ Elements(Bad(s)) = Elements(Bad(Plain(s))) \cup Elements(Bad(Marked(s)))
    BY <1>2, <1>3
  <1> QED BY <1>4, OfElements

(* And those of the files whose signature is asked for. *)
LEMMA ShownOfAnswers ==
  ASSUME NEW s \in Seq(TextEntries)
  PROVE  Shown(Others(On(s))) =
           Shown(Failed(Others(On(s)))) \cup Shown(Marked(Answered(Others(On(s)))))
             \cup Shown(Plain(Bad(Answered(Others(On(s))))))
             \cup Shown(Plain(Good(Answered(Others(On(s))))))
  <1> DEFINE r == Others(On(s))
  <1>1. \A K : \A x \in Seq(TextEntries) :
          Select(x, K) \in Seq(TextEntries) /\ Elements(Select(x, K)) = Elements(x) \cap K
    BY SelectType, SelectElements
  <1>2. r \in Seq(TextEntries) /\ Elements(r) \subseteq OnOnes
    BY <1>1 DEF On, Others
  <1> HIDE DEF r
  <1>3. /\ Elements(Failed(r)) = Elements(r) \cap FailedOnes
        /\ Elements(Marked(Answered(r))) = Elements(r) \cap AnsweredOnes \cap MarkedOnes
        /\ Elements(Plain(Bad(Answered(r)))) =
             Elements(r) \cap AnsweredOnes \cap BadOnes \cap PlainOnes
        /\ Elements(Plain(Good(Answered(r)))) =
             Elements(r) \cap AnsweredOnes \cap GoodOnes \cap PlainOnes
    BY <1>1, <1>2 DEF Failed, Answered, Bad, Good, Plain, Marked
  <1>4. OnOnes = (OnOnes \cap FailedOnes) \cup (OnOnes \cap AnsweredOnes \cap MarkedOnes)
                   \cup (AnsweredOnes \cap BadOnes \cap PlainOnes)
                   \cup (AnsweredOnes \cap GoodOnes \cap PlainOnes)
    BY DEF OnOnes, BadOnes, GoodOnes, PlainOnes, MarkedOnes, FailedOnes, AnsweredOnes, TextEntries
  <1>5. Elements(r) = Elements(Failed(r)) \cup Elements(Marked(Answered(r)))
                        \cup Elements(Plain(Bad(Answered(r))))
                        \cup Elements(Plain(Good(Answered(r))))
    BY <1>2, <1>3, <1>4
  <1>6. Shown(r) = Shown(Failed(r)) \cup Shown(Marked(Answered(r)))
                     \cup Shown(Plain(Bad(Answered(r)))) \cup Shown(Plain(Good(Answered(r))))
    BY <1>5, OfElements
  <1> QED BY <1>6 DEF r

(* The scanners that list all they find under one tag.                      *)
LEMMA WarningsListed ==
  ASSUME NEW s \in Seq(TextEntries)
  PROVE  /\ Lists(ScanRegistryAutoruns(s), "warn", Bad(s))
         /\ Lists(ScanStartupFolders(s), "warn", Bad(s))
         /\ Lists(ScanServices(s), "warn", Bad(s))
         /\ Lists(ScanScheduledTasks(s), "warn", Bad(s))
         /\ Lists(ScanServiceDlls(s), "warn", Bad(s))
         /\ Lists(ScanIfeoDebuggers(s), "warn", Bad(s))
         /\ Lists(ScanFileAssociations(s), "warn", Bad(s))
         /\ Lists(ScanActiveSetup(s), "warn", Bad(s))
         /\ Lists(ScanFakeSystemProcesses(s), "warn", Bad(s))
         /\ Lists(ScanServiceDrivers(s), "warn", Bad(s))
         /\ Lists(ScanProxyPac(s), "warn", Bad(s))
         /\ Lists(ScanPolicyAutoruns(s), "warn", Bad(s))
         /\ Lists(ScanIeSearchAndStorage(s), "warn", Bad(Plain(s)))
  <1>1. (s = <<>> => Bad(s) = <<>>) /\ (On(s) = <<>> => Bad(s) = <<>>)
        /\ Bad(On(s)) = Bad(s)
    BY Selections
  <1>2. On(Plain(s)) = <<>> => Bad(Plain(s)) = <<>>
    BY Selections
  <1> USE DEF Lists, JudgeAll, Totals, Readable, When
  <1>3. /\ Lists(ScanRegistryAutoruns(s), "warn", Bad(s))
        /\ Lists(ScanStartupFolders(s), "warn", Bad(s))
        /\ Lists(ScanServices(s), "warn", Bad(s))
        /\ Lists(ScanScheduledTasks(s), "warn", Bad(s))
        /\ Lists(ScanServiceDlls(s), "warn", Bad(s))
    BY <1>1, TagsOf DEF ScanRegistryAutoruns, ScanStartupFolders, ScanServices,
         ScanScheduledTasks, ScanServiceDlls
  <1>4. /\ Lists(ScanIfeoDebuggers(s), "warn", Bad(s))
        /\ Lists(ScanFileAssociations(s), "warn", Bad(s))
        /\ Lists(ScanActiveSetup(s), "warn", Bad(s))
        /\ Lists(ScanFakeSystemProcesses(s), "warn", Bad(s))
    BY <1>1, TagsOf DEF ScanIfeoDebuggers, ScanFileAssociations, ScanActiveSetup,
         ScanFakeSystemProcesses
  <1>5. Lists(ScanServiceDrivers(s), "warn", Bad(s))
    BY <1>1, TagsOf DEF ScanServiceDrivers
  <1>6. /\ Lists(ScanProxyPac(s), "warn", Bad(s))
        /\ Lists(ScanPolicyAutoruns(s), "warn", Bad(s))
    BY <1>1, TagsOf DEF ScanProxyPac, ScanPolicyAutoruns
  <1>7. Lists(ScanIeSearchAndStorage(s), "warn", Bad(Plain(s)))
    BY <1>2, TagsOf DEF ScanIeSearchAndStorage
  <1> QED BY <1>3, <1>4, <1>5, <1>6, <1>7

(* The ones whose list is cut, if it was long enough.                       *)
LEMMA ShortWarningsListed ==
  ASSUME NEW s \in Seq(TextEntries)
  PROVE  /\ Len(Bad(s)) <= Cap[5] =>
              Lists(ScanBitsJobs(s), "warn", Bad(s)) /\ Lists(ScanWinsock(s), "warn", Bad(s))
         /\ Len(Bad(s)) <= Cap[6] => Lists(ScanIeElevationPolicy(s), "warn", Bad(s))
         /\ Len(Bad(s)) <= Cap[8] =>
              /\ Lists(ScanUninstallEntries(s), "warn", Bad(s))
              /\ Lists(ScanBrowserShortcuts(s), "warn", Bad(s))
              /\ Lists(ScanIpsecPolicy(s), "item", Bad(s))
         /\ Len(Bad(s)) <= Cap[20] =>
              /\ Lists(ScanSaferPolicy(s), "warn", Bad(s))
              /\ Lists(ScanSafebootOverrides(s), "warn", Bad(s))
              /\ Lists(ScanMozillaPlugins(s), "warn", Bad(s))
              /\ Lists(ScanFirefox(s), "check", Bad(s))
         /\ Len(Bad(s)) <= Cap[25] =>
              Lists(ScanAppPaths(s), "warn", Bad(s)) /\ Lists(ScanFirewallRules(s), "warn", Bad(s))
  <1>1. (s = <<>> => Bad(s) = <<>>) /\ (On(s) = <<>> => Bad(s) = <<>>)
        /\ Bad(s) \in Seq(TextEntries) /\ Bad(On(s)) = Bad(s)
    BY Selections
  <1>2. \A n \in {5, 6, 8, 20, 25} : Len(Bad(s)) <= Cap[n] => First(Bad(s), Cap[n]) = Bad(s)
    BY <1>1, Capped, FirstOfFew
  <1> USE DEF Lists, Judge, Totals, Readable, Patterns, When
  <1>3. First(Bad(s), Cap[5]) = Bad(s) =>
          Lists(ScanBitsJobs(s), "warn", Bad(s)) /\ Lists(ScanWinsock(s), "warn", Bad(s))
    BY <1>1, TagsOf DEF ScanBitsJobs, ScanWinsock
  <1>4. First(Bad(s), Cap[6]) = Bad(s) => Lists(ScanIeElevationPolicy(s), "warn", Bad(s))
    BY <1>1, TagsOf DEF ScanIeElevationPolicy
  <1>5. First(Bad(s), Cap[8]) = Bad(s) =>
          /\ Lists(ScanUninstallEntries(s), "warn", Bad(s))
          /\ Lists(ScanBrowserShortcuts(s), "warn", Bad(s))
          /\ Lists(ScanIpsecPolicy(s), "item", Bad(s))
    BY <1>1, TagsOf DEF ScanUninstallEntries, ScanBrowserShortcuts, ScanIpsecPolicy
  <1>6. First(Bad(s), Cap[20]) = Bad(s) =>
          /\ Lists(ScanSaferPolicy(s), "warn", Bad(s))
          /\ Lists(ScanSafebootOverrides(s), "warn", Bad(s))
          /\ Lists(ScanMozillaPlugins(s), "warn", Bad(s))
    BY <1>1, TagsOf DEF ScanSaferPolicy, ScanSafebootOverrides, ScanMozillaPlugins
  <1>8. First(Bad(s), Cap[20]) = Bad(s) => Lists(ScanFirefox(s), "check", Bad(s))
    BY <1>1, TagsOf DEF ScanFirefox
  <1>7. First(Bad(s), Cap[25]) = Bad(s) =>
          Lists(ScanAppPaths(s), "warn", Bad(s)) /\ Lists(ScanFirewallRules(s), "warn", Bad(s))
    BY <1>1, TagsOf DEF ScanAppPaths, ScanFirewallRules
  <1> QED BY <1>2, <1>3, <1>4, <1>5, <1>6, <1>7, <1>8

(* The other lists, and the ones of several tags. *)
LEMMA ListsListed ==
  ASSUME NEW s \in Seq(TextEntries)
  PROVE  /\ Len(On(s)) <= Cap[4] /\ Failed(s) = <<>> => Lists(ScanHosts(s), "item", On(s))
         /\ Lists(ScanBrowserPolicies(s), "check", Plain(On(s)))
         /\ On(s) # <<>> => Lists(ScanBrowserPolicies(s), "info", Marked(On(s)))
         /\ Lists(ScanGroupPolicyRegistry(s), "check", Bad(s))
         /\ Failed(s) = <<>> => Lists(ScanExtensionMetadata(s), "check id", Bad(s))
         /\ Len(On(s)) <= Cap[30] =>
              /\ Lists(ScanNumericSystemFiles(s), "check", On(s))
              /\ Failed(s) = <<>> => Lists(ScanNotificationOrigins(s), "check", On(s))
         /\ Len(On(s)) <= Cap[5] =>
              /\ Lists(ScanWmiPersistence(s), "warn", Bad(s))
              /\ Lists(ScanWmiPersistence(s), "item", Good(s))
         /\ Len(On(s)) <= Cap[20] =>
              /\ Lists(ScanHiddenExecutables(s), "warn", Bad(s))
              /\ Lists(ScanHiddenExecutables(s), "check", Good(s))
         /\ Len(On(s)) <= Cap[15] =>
              /\ Lists(ScanAppcertDlls(s), "warn", Bad(s))
              /\ Lists(ScanAppcertDlls(s), "check", Good(s))
         /\ Len(Bad(s)) <= Cap[8] =>
              /\ Lists(ScanEnvironment(s), "warn", Bad(Plain(s)))
              /\ Lists(ScanEnvironment(s), "warn logon", Bad(Marked(s)))
  <1>1. /\ On(s) \in Seq(TextEntries)
        /\ s = <<>> => On(s) = <<>> /\ Bad(s) = <<>>
        /\ Bad(On(s)) = Bad(s) /\ Good(On(s)) = Good(s)
    BY Selections
  <1>2. On(s) = <<>> => /\ Bad(s) = <<>> /\ Good(s) = <<>>
                        /\ Marked(On(s)) = <<>> /\ Plain(On(s)) = <<>>
    BY <1>1, OfNothing
  <1>3. \A n \in {4, 5, 15, 20, 30} : Len(On(s)) <= Cap[n] => First(On(s), Cap[n]) = On(s)
    BY <1>1, Capped, FirstOfFew
  <1>4. Len(Bad(s)) <= Cap[8] => First(Bad(Plain(s)), Cap[8]) = Bad(Plain(s))
    <2> SUFFICES ASSUME Len(Bad(s)) <= Cap[8] PROVE First(Bad(Plain(s)), Cap[8]) = Bad(Plain(s))
      OBVIOUS
    <2>1. /\ Bad(s) \in Seq(TextEntries)
          /\ Plain(Bad(s)) \in Seq(TextEntries) /\ Len(Plain(Bad(s))) <= Len(Bad(s))
      BY SelectType DEF Plain, Bad
    <2>2. Cap[8] \in Nat /\ Len(Plain(Bad(s))) <= Cap[8]
      BY <2>1, Capped
    <2> QED BY <2>1, <2>2, FirstOfFew, Selections
  <1> USE DEF Lists, Totals, Readable, When, Inventory
  <1>5. First(On(s), Cap[4]) = On(s) /\ Failed(s) = <<>> => Lists(ScanHosts(s), "item", On(s))
    BY <1>1, TagsOf DEF ScanHosts
  <1>6. /\ Lists(ScanBrowserPolicies(s), "check", Plain(On(s)))
        /\ On(s) # <<>> => Lists(ScanBrowserPolicies(s), "info", Marked(On(s)))
        /\ Lists(ScanGroupPolicyRegistry(s), "check", Bad(s))
        /\ Failed(s) = <<>> => Lists(ScanExtensionMetadata(s), "check id", Bad(s))
    BY <1>1, <1>2, TagsOf DEF ScanBrowserPolicies, ScanGroupPolicyRegistry, ScanExtensionMetadata
  <1>7. First(On(s), Cap[30]) = On(s) =>
          /\ Lists(ScanNumericSystemFiles(s), "check", On(s))
          /\ Failed(s) = <<>> => Lists(ScanNotificationOrigins(s), "check", On(s))
    BY TagsOf DEF ScanNumericSystemFiles, ScanNotificationOrigins
  <1>8. First(On(s), Cap[5]) = On(s) =>
          /\ Lists(ScanWmiPersistence(s), "warn", Bad(s))
          /\ Lists(ScanWmiPersistence(s), "item", Good(s))
    BY <1>1, <1>2, TagsOf DEF ScanWmiPersistence
  <1>9. First(On(s), Cap[20]) = On(s) =>
          /\ Lists(ScanHiddenExecutables(s), "warn", Bad(s))
          /\ Lists(ScanHiddenExecutables(s), "check", Good(s))
    BY <1>1, TagsOf DEF ScanHiddenExecutables
  <1>10. First(On(s), Cap[15]) = On(s) =>
          /\ Lists(ScanAppcertDlls(s), "warn", Bad(s))
          /\ Lists(ScanAppcertDlls(s), "check", Good(s))
    BY <1>1, <1>2, TagsOf DEF ScanAppcertDlls
  <1>11. First(Bad(Plain(s)), Cap[8]) = Bad(Plain(s)) =>
          /\ Lists(ScanEnvironment(s), "warn", Bad(Plain(s)))
          /\ Lists(ScanEnvironment(s), "warn logon", Bad(Marked(s)))
    BY TagsOf DEF ScanEnvironment
  <1> QED BY <1>3, <1>4, <1>5, <1>6, <1>7, <1>8, <1>9, <1>10, <1>11

(* The four outcomes of the signatures are listed. *)
LEMMA SignaturesListed ==
  ASSUME NEW s \in Seq(TextEntries), Len(On(s)) <= Cap[12]
  PROVE  /\ Lists(ScanFileSignatures(s), "info failed", Failed(Others(On(s))))
         /\ Lists(ScanFileSignatures(s), "valid", Marked(Answered(Others(On(s)))))
         /\ Lists(ScanFileSignatures(s), "warn", Plain(Bad(Answered(Others(On(s))))))
         /\ Lists(ScanFileSignatures(s), "check", Plain(Good(Answered(Others(On(s))))))
  <1>1. First(On(s), Cap[12]) = On(s)
    <2>1. On(s) \in Seq(TextEntries) /\ Cap[12] \in Nat
      BY Selections, Capped
    <2> QED BY <2>1, FirstOfFew
  <1> DEFINE failed == Failed(Others(On(s)))
             valid == Marked(Answered(Others(On(s))))
             warned == Plain(Bad(Answered(Others(On(s)))))
             checked == Plain(Good(Answered(Others(On(s)))))
  <1>2. On(s) = <<>> => failed = <<>> /\ valid = <<>> /\ warned = <<>> /\ checked = <<>>
    BY SelectEmpty DEF Failed, Others, Answered, Marked, Plain, Bad, Good
  <1>3. \E n, m :
          ScanFileSignatures(s) =
            IF On(s) = <<>> THEN Says("info none")
            ELSE Message("info", n) \cup Message("info signed", m)
                 \cup Lines("info failed", failed) \cup Lines("valid", valid)
                 \cup Lines("warn", warned) \cup Lines("check", checked)
    BY <1>1, Zenon DEF ScanFileSignatures
  <1> HIDE DEF failed, valid, warned, checked
  <1>4. /\ Lists(ScanFileSignatures(s), "info failed", failed)
        /\ Lists(ScanFileSignatures(s), "valid", valid)
        /\ Lists(ScanFileSignatures(s), "warn", warned)
        /\ Lists(ScanFileSignatures(s), "check", checked)
    BY <1>2, <1>3, TagsOf DEF Lists
  <1> QED BY <1>4 DEF failed, valid, warned, checked

(* The suspicious values of each of the keys are listed. *)
LEMMA RestrictionsListed ==
  ASSUME NEW s \in Seq(TextEntries),
         \A key \in Groups(Bad(s)) : Len(Of(Bad(s), key)) <= Cap[6]
  PROVE  Lists(ScanExecutionRestrictions(s), "warn", Bad(s))
  <1> DEFINE all == On(s)
             OfKey(key) == {e \in TextEntries : e.group = key}
             listed == UNION {Lines("warn", First(Bad(Of(all, key)), Cap[6])) : key \in Groups(all)}
  <1>1. /\ all \in Seq(TextEntries) /\ Bad(s) \in Seq(TextEntries)
        /\ Bad(all) = Bad(s) /\ Cap[6] \in Nat
    BY Selections, Capped
  <1> HIDE DEF all
  <1>2. Elements(Bad(s)) = Elements(all) \cap BadOnes /\ Elements(Bad(s)) \subseteq TextEntries
    BY <1>1, SelectElements DEF Bad, BadOnes
  <1>3. ASSUME NEW key \in Groups(all)
        PROVE  /\ First(Bad(Of(all, key)), Cap[6]) = Bad(Of(all, key))
               /\ Elements(Bad(Of(all, key))) = Elements(Bad(s)) \cap OfKey(key)
    <2> DEFINE x == Bad(Of(all, key))
    <2>1. x = Of(Bad(s), key)
      <3>1. /\ Select(Select(all, OfKey(key)), BadOnes) = Select(all, OfKey(key) \cap BadOnes)
            /\ Select(Select(all, BadOnes), OfKey(key)) = Select(all, BadOnes \cap OfKey(key))
        BY <1>1, SelectTwice
      <3>2. OfKey(key) \cap BadOnes = BadOnes \cap OfKey(key)
        OBVIOUS
      <3> HIDE DEF OfKey
      <3>3. Select(Select(all, OfKey(key)), BadOnes) = Select(Bad(all), OfKey(key))
        BY <3>1, <3>2 DEF Bad
      <3> QED BY <1>1, <3>3 DEF Bad, Of, OfKey
    <2>2. Of(Bad(s), key) \in Seq(TextEntries)
          /\ Elements(Of(Bad(s), key)) = Elements(Bad(s)) \cap OfKey(key)
      BY <1>1, SelectType, SelectElements DEF Of
    <2>3. Len(Of(Bad(s), key)) <= Cap[6]
      <3>1. CASE key \in Groups(Bad(s))
        BY <3>1
      <3>2. CASE key \notin Groups(Bad(s))
        <4>1. Elements(Of(Bad(s), key)) = {}
          BY <2>2, <3>2, OfElements
        <4>2. Len(Of(Bad(s), key)) = 0
          BY <2>2, <4>1 DEF Elements
        <4> QED BY <1>1, <4>2
      <3> QED BY <3>1, <3>2
    <2>4. First(Of(Bad(s), key), Cap[6]) = Of(Bad(s), key)
      BY <1>1, <2>2, <2>3, FirstOfFew
    <2> QED BY <2>1, <2>2, <2>4
  <1>4. listed = Lines("warn", Bad(s))
    <2>1. listed = UNION {Lines("warn", Bad(Of(all, key))) : key \in Groups(all)}
      BY <1>3
    <2>2. \A key \in Groups(all) :
            Lines("warn", Bad(Of(all, key))) =
              {<<"warn", e.shown>> : e \in Elements(Bad(s)) \cap OfKey(key)}
      BY <1>3, OfElements
    <2>3. Lines("warn", Bad(s)) = {<<"warn", e.shown>> : e \in Elements(Bad(s))}
      BY OfElements
    <2>4. \A e \in Elements(Bad(s)) : e.group \in Groups(all) /\ e \in OfKey(e.group)
      BY <1>2, OfElements
    <2> HIDE DEF listed, OfKey
    <2>5. listed \subseteq Lines("warn", Bad(s))
      BY <2>1, <2>2, <2>3
    <2>6. ASSUME NEW m \in Lines("warn", Bad(s)) PROVE m \in listed
      <3>1. PICK e \in Elements(Bad(s)) : m = <<"warn", e.shown>>
        BY <2>3
      <3>2. m \in Lines("warn", Bad(Of(all, e.group)))
        BY <2>2, <2>4, <3>1
      <3> QED BY <2>1, <2>4, <3>2
    <2> QED BY <2>5, <2>6
  <1>5. ScanExecutionRestrictions(s) = Counts("check", all) \cup listed
    BY DEF ScanExecutionRestrictions, all
  <1> HIDE DEF listed
  <1> QED BY <1>4, <1>5, TagsOf DEF Lists

(* The scan of the COM values of the user stops with its last finding.      *)
LEMMA UserComListed ==
  ASSUME NEW s \in Seq(TextEntries), Len(Bad(s)) <= Cap[30]
  PROVE  Lists(ScanUserCom(s), "warn", Bad(s))
  <1> DEFINE values == On(s)
             Stops(n) == Len(Bad(SubSeq(values, 1, n))) = Cap[30]
             stop == CHOOSE n \in DOMAIN values : Stops(n) /\ \A k \in 1 .. n - 1 : ~Stops(k)
             read == SubSeq(values, 1, stop)
  <1>1. /\ values \in Seq(TextEntries) /\ Bad(values) = Bad(s) /\ Cap[30] \in Nat \ {0}
        /\ DOMAIN values = 1 .. Len(values) /\ Len(values) \in Nat
    BY Selections, Capped
  <1>2. CASE \E n \in DOMAIN values : Stops(n)
    <2>1. stop \in DOMAIN values /\ Stops(stop)
      <3> DEFINE U == {n \in Nat : n \in DOMAIN values /\ Stops(n)}
      <3>1. PICK n \in U : \A k \in U : ~(k < n)
        <4>1. U \subseteq Nat /\ U # {}
          BY <1>1, <1>2
        <4> HIDE DEF U
        <4> QED BY <4>1, LeastNumber
      <3>2. n \in DOMAIN values /\ Stops(n) /\ \A k \in 1 .. n - 1 : ~Stops(k)
        BY <1>1, <3>1
      <3> HIDE DEF Stops
      <3> QED BY <3>2
    <2> HIDE DEF stop
    <2>2. Bad(read) = Bad(values)
      <3>1. /\ Len(Bad(read)) <= Len(Bad(values))
            /\ Len(Bad(read)) = Len(Bad(values)) => Bad(read) = Bad(values)
        <4>1. stop \in 0 .. Len(values)
          BY <1>1, <2>1
        <4> HIDE DEF values
        <4> QED BY <1>1, <4>1, SelectPrefix DEF Bad
      <3>2. Len(Bad(values)) \in Nat /\ Len(Bad(values)) <= Cap[30] /\ Len(Bad(read)) = Cap[30]
        <4>1. Bad(s) \in Seq(TextEntries)
          BY Selections
        <4>2. Len(Bad(s)) \in Nat
          BY <4>1
        <4>3. Len(Bad(read)) = Cap[30]
          BY <2>1
        <4> HIDE DEF values, read
        <4> QED BY <1>1, <4>2, <4>3
      <3> QED BY <1>1, <3>1, <3>2
    <2>3. ScanUserCom(s) =
            Lines("warn", Bad(read)) \cup Says("info more") \cup Message("info least", stop)
      BY <1>2 DEF ScanUserCom, stop
    <2> HIDE DEF read, values
    <2> QED BY <1>1, <2>2, <2>3, TagsOf DEF Lists
  <1>3. CASE ~\E n \in DOMAIN values : Stops(n)
    <2>1. ScanUserCom(s) = JudgeAll(s)
      BY <1>3 DEF ScanUserCom
    <2> QED BY <2>1, TagsOf DEF Lists, JudgeAll, Totals
  <1> QED BY <1>2, <1>3

(* The COM values of the machine are a set: all are listed if it fits.      *)
LEMMA MachineComListed ==
  ASSUME NEW s \in Seq(TextEntries), Len(On(s)) <= Cap[30]
  PROVE  Lists(ScanMachineCom(s), "check", On(s))
  <1> DEFINE all == On(s)
             hits == {<<all[i].also, all[i].shown>> : i \in DOMAIN all}
             listed == {h \in hits : Cardinality({k \in hits : k[1] < h[1]}) < Cap[30]}
  <1>1. all \in Seq(TextEntries) /\ Len(all) <= Cap[30] /\ Cap[30] \in Nat
    BY Selections, Capped
  <1> HIDE DEF all
  <1>2. IsFiniteSet(hits) /\ Cardinality(hits) \in Nat /\ Cardinality(hits) <= Cap[30]
    <2> DEFINE n == Len(all)
               D == 1 .. n
    <2>1. D = DOMAIN all /\ n \in Nat /\ n <= Cap[30]
      BY <1>1
    <2>2. IsFiniteSet(D) /\ Cardinality(D) = n
      <3> HIDE DEF n
      <3> QED BY <2>1, FS_Interval
    <2> DEFINE f == [i \in D |-> <<all[i].also, all[i].shown>>]
    <2>3. f \in [D -> hits] /\ \A h \in hits : \E i \in D : f[i] = h
      BY <2>1
    <2> HIDE DEF f, D, hits, n
    <2>4. f \in Surjection(D, hits)
      BY <2>3 DEF Surjection
    <2>5. IsFiniteSet(hits) /\ Cardinality(hits) <= Cardinality(D)
      BY <2>2, <2>4, FS_Surjection
    <2>6. Cardinality(hits) \in Nat
      BY <2>5, FS_CardinalityType
    <2> QED BY <1>1, <2>1, <2>2, <2>5, <2>6
  <1>3. \A h \in hits : Cardinality({k \in hits : k[1] < h[1]}) < Cap[30]
    <2> SUFFICES ASSUME NEW h \in hits PROVE Cardinality({k \in hits : k[1] < h[1]}) < Cap[30]
      OBVIOUS
    <2>1. h[1] \in Nat
      <3>1. PICK i \in DOMAIN all : h = <<all[i].also, all[i].shown>>
        OBVIOUS
      <3>2. all[i] \in TextEntries
        BY <1>1
      <3>3. all[i].also \in Nat
        BY <3>2 DEF TextEntries
      <3> QED BY <3>1, <3>3
    <2> DEFINE less == {k \in hits : k[1] < h[1]}
    <2>2. less \subseteq hits /\ less # hits
      BY <2>1
    <2>3. Cardinality(less) < Cardinality(hits) /\ Cardinality(less) \in Nat
      <3> HIDE DEF less, hits
      <3> QED BY <1>2, <2>2, FS_Subset, FS_CardinalityType
    <2> QED BY <1>1, <1>2, <2>3
  <1>4. listed = hits
    BY <1>3
  <1>5. {<<"check", h[2]>> : h \in hits} = Lines("check", all)
    <2>1. \A i \in DOMAIN all : <<all[i].also, all[i].shown>>[2] = all[i].shown
      OBVIOUS
    <2> QED BY <2>1 DEF Lines
  <1>6. hits = {} => Lines("check", all) = {}
    BY DEF Lines
  <1>7. ScanMachineCom(s) =
          IF hits = {} THEN Says("info none")
          ELSE {<<"check", h[2]>> : h \in listed}
               \cup Message("check number", Cardinality(hits))
               \cup When(Cardinality(hits) > Cap[30],
                         Message("info more", Cardinality(hits) - Cap[30]))
    BY Zenon DEF ScanMachineCom, all
  <1> HIDE DEF hits, listed
  <1>8. ScanMachineCom(s) =
          IF hits = {} THEN Says("info none")
          ELSE Lines("check", all)
               \cup Message("check number", Cardinality(hits))
               \cup When(Cardinality(hits) > Cap[30],
                         Message("info more", Cardinality(hits) - Cap[30]))
    BY <1>4, <1>5, <1>7
  <1>9. Lists(ScanMachineCom(s), "check", all)
    BY <1>6, <1>8, TagsOf DEF Lists, When
  <1> QED BY <1>9 DEF all

(* A text has no more different entries than entries. *)
LEMMA FewElements ==
  ASSUME NEW E, NEW s \in Seq(E)
  PROVE  IsFiniteSet(Elements(s)) /\ Cardinality(Elements(s)) <= Len(s)
  <1> DEFINE n == Len(s)
             D == 1 .. n
             R == Elements(s)
             f == [i \in D |-> s[i]]
  <1>1. D = DOMAIN s /\ n \in Nat
    OBVIOUS
  <1>2. IsFiniteSet(D) /\ Cardinality(D) = n
    <2> HIDE DEF n
    <2> QED BY <1>1, FS_Interval
  <1>3. f \in [D -> R] /\ \A h \in R : \E i \in D : f[i] = h
    BY <1>1 DEF Elements
  <1> HIDE DEF f, D, R
  <1>4. f \in Surjection(D, R)
    BY <1>3 DEF Surjection
  <1>5. IsFiniteSet(R) /\ Cardinality(R) <= Cardinality(D)
    BY <1>2, <1>4, FS_Surjection
  <1> QED BY <1>2, <1>5 DEF R

(* What inspect_text passes over, and its recursive function. *)
PassedOver(known, h) ==
  \/ \E k \in known : k.also = h.also
  \/ Cardinality({k \in known : k.group = h.group}) >= Room(h.group)

Inspects(f, n, hits) ==
  f = [i \in 0 .. n |-> IF i = 0 THEN {}
                        ELSE IF PassedOver(f[i - 1], hits[i]) THEN f[i - 1]
                        ELSE f[i - 1] \cup {hits[i]}]

(* There is such a function for every length. *)
LEMMA InspectsExists ==
  ASSUME NEW hits
  PROVE  \A n \in Nat : \E f : Inspects(f, n, hits)
  <1> DEFINE T == {n \in Nat : \E f : Inspects(f, n, hits)}
  <1>1. 0 \in T
    <2> DEFINE f == [i \in 0 .. 0 |-> {}]
    <2>1. Inspects(f, 0, hits)
      BY DEF Inspects
    <2> QED BY <2>1
  <1>2. ASSUME NEW n \in T PROVE n + 1 \in T
    <2>1. PICK f : Inspects(f, n, hits)
      OBVIOUS
    <2> DEFINE g == [i \in 0 .. n + 1 |->
                       IF i <= n THEN f[i]
                       ELSE IF PassedOver(f[n], hits[i]) THEN f[n] ELSE f[n] \cup {hits[i]}]
    <2>2. \A i \in 0 .. n : f[i] = IF i = 0 THEN {}
                                   ELSE IF PassedOver(f[i - 1], hits[i]) THEN f[i - 1]
                                   ELSE f[i - 1] \cup {hits[i]}
      BY <2>1 DEF Inspects
    <2>3. \A i \in 0 .. n + 1 :
            g[i] = IF i = 0 THEN {}
                   ELSE IF PassedOver(g[i - 1], hits[i]) THEN g[i - 1]
                   ELSE g[i - 1] \cup {hits[i]}
      <3> SUFFICES ASSUME NEW i \in 0 .. n + 1
                   PROVE  g[i] = IF i = 0 THEN {}
                                 ELSE IF PassedOver(g[i - 1], hits[i]) THEN g[i - 1]
                                 ELSE g[i - 1] \cup {hits[i]}
        OBVIOUS
      <3>1. CASE i = 0
        <4>1. 0 \in 0 .. n + 1 /\ 0 \in 0 .. n /\ 0 <= n
          OBVIOUS
        <4>2. g[0] = f[0]
          BY <4>1
        <4>3. f[0] = {}
          BY <2>2, <4>1
        <4> HIDE DEF g
        <4> QED BY <3>1, <4>2, <4>3
      <3>2. CASE i \in 1 .. n
        <4>1. g[i] = f[i] /\ g[i - 1] = f[i - 1] /\ i # 0
          BY <3>2
        <4>2. i \in 0 .. n
          BY <3>2
        <4>3. f[i] = IF PassedOver(f[i - 1], hits[i]) THEN f[i - 1]
                     ELSE f[i - 1] \cup {hits[i]}
          BY <2>2, <4>1, <4>2
        <4> HIDE DEF g
        <4> QED BY <4>1, <4>3
      <3>3. CASE i = n + 1
        <4>1. /\ g[i] = IF PassedOver(f[n], hits[i]) THEN f[n] ELSE f[n] \cup {hits[i]}
              /\ g[n] = f[n] /\ i - 1 = n /\ i # 0
          BY <3>3
        <4> HIDE DEF g
        <4> QED BY <4>1
      <3> QED BY <3>1, <3>2, <3>3
    <2>4. Inspects(g, n + 1, hits)
      BY <2>3 DEF Inspects
    <2> QED BY <2>4
  <1> HIDE DEF T
  <1>3. Nat \subseteq T
    BY <1>1, <1>2, SetInduction
  <1> QED BY <1>3 DEF T

(* If each text has room for its hits, each domain is told once. *)
LEMMA AllInspected ==
  ASSUME NEW hits \in Seq(TextEntries),
         \A place \in Groups(hits) : Len(Of(hits, place)) <= Room(place)
  PROVE  {h.also : h \in InspectTexts(hits)} = {hits[i].also : i \in DOMAIN hits}
  <1> DEFINE n == Len(hits)
             Is(f) == Inspects(f, n, hits)
             kept == CHOOSE f : Is(f)
  <1>1. n \in Nat /\ DOMAIN hits = 1 .. n
    OBVIOUS
  <1>2. Is(kept)
    <2>1. \E f : Is(f)
      BY <1>1, InspectsExists
    <2> HIDE DEF Is
    <2> QED BY <2>1
  <1>3. InspectTexts(hits) = kept[n]
    BY DEF InspectTexts, Inspects, PassedOver
  <1> HIDE DEF kept
  <1>4. \A i \in 0 .. n : kept[i] = IF i = 0 THEN {}
                                    ELSE IF PassedOver(kept[i - 1], hits[i]) THEN kept[i - 1]
                                    ELSE kept[i - 1] \cup {hits[i]}
    BY <1>2 DEF Inspects
  <1> DEFINE T == {i \in Nat : i <= n => /\ kept[i] \subseteq Elements(hits)
                                         /\ \A j \in 1 .. i : \E h \in kept[i] :
                                              h.also = hits[j].also}
  <1>5. 0 \in T
    <2>1. 0 \in 0 .. n /\ 1 .. 0 = {}
      BY <1>1
    <2>2. kept[0] = {}
      BY <1>4, <2>1
    <2> QED BY <2>1, <2>2
  <1>6. ASSUME NEW i \in T PROVE i + 1 \in T
    <2> SUFFICES ASSUME i + 1 <= n
                 PROVE  /\ kept[i + 1] \subseteq Elements(hits)
                        /\ \A j \in 1 .. i + 1 : \E h \in kept[i + 1] : h.also = hits[j].also
      OBVIOUS
    <2> DEFINE hit == hits[i + 1]
               known == kept[i]
    <2>1. /\ i \in Nat /\ i + 1 \in 0 .. n /\ (i + 1) - 1 = i /\ i + 1 # 0
          /\ i + 1 \in DOMAIN hits
          /\ known \subseteq Elements(hits)
          /\ \A j \in 1 .. i : \E h \in known : h.also = hits[j].also
      BY <1>1
    <2>2. kept[i + 1] = IF PassedOver(known, hit) THEN known ELSE known \cup {hit}
      BY <1>4, <2>1
    <2>3. hit \in Elements(hits) /\ hit.group \in Groups(hits) /\ hit \in TextEntries
      BY <2>1 DEF Elements, Groups
    <2>4. (\A k \in known : k.also # hit.also) => ~PassedOver(known, hit)
      <3> SUFFICES ASSUME \A k \in known : k.also # hit.also PROVE ~PassedOver(known, hit)
        OBVIOUS
      <3> HIDE DEF hit, known
      <3> DEFINE place == hit.group
                 before == {k \in known : k.group = place}
                 own == Elements(Of(hits, place))
      <3>1. Of(hits, place) \in Seq(TextEntries)
            /\ own = Elements(hits) \cap {e \in TextEntries : e.group = place}
        BY SelectType, SelectElements DEF Of
      <3>2. before \subseteq own /\ hit \in own /\ hit \notin before
        <4>1. Elements(hits) \subseteq TextEntries
          BY DEF Elements
        <4> QED BY <2>1, <2>3, <3>1, <4>1
      <3>3. IsFiniteSet(own) /\ Cardinality(own) <= Len(Of(hits, place))
        BY <3>1, FewElements
      <3>4. Len(Of(hits, place)) <= Room(place) /\ Len(Of(hits, place)) \in Nat
        BY <2>3, <3>1
      <3>5. Room(place) \in Nat
        <4>1. Cap[20] \in Nat /\ Cap[25] \in Nat /\ Cap[35] \in Nat
          BY Capped
        <4> HIDE DEF place
        <4> QED BY <4>1 DEF Room
      <3> HIDE DEF place, before, own
      <3>6. /\ Cardinality(before) < Cardinality(own)
            /\ Cardinality(before) \in Nat /\ Cardinality(own) \in Nat
        <4>1. IsFiniteSet(before) /\ before # own
          BY <3>2, <3>3, FS_Subset
        <4> QED BY <3>2, <3>3, <4>1, FS_Subset, FS_CardinalityType
      <3>7. ~(Cardinality(before) >= Room(place))
        BY <3>3, <3>4, <3>5, <3>6
      <3> QED BY <3>7 DEF PassedOver, before, place
    <2>5. \E h \in kept[i + 1] : h.also = hits[i + 1].also
      <3>1. CASE \E k \in known : k.also = hit.also
        <4>1. known \subseteq kept[i + 1]
          BY <2>2
        <4> HIDE DEF known
        <4> QED BY <3>1, <4>1
      <3>2. CASE \A k \in known : k.also # hit.also
        <4>1. hit \in kept[i + 1]
          <5> HIDE DEF known, hit
          <5> QED BY <2>2, <2>4, <3>2
        <4> QED BY <4>1
      <3> QED BY <3>1, <3>2
    <2> HIDE DEF hit
    <2>6. kept[i + 1] \subseteq Elements(hits) /\ known \subseteq kept[i + 1]
      BY <2>1, <2>2, <2>3
    <2>7. ASSUME NEW j \in 1 .. i + 1 PROVE \E h \in kept[i + 1] : h.also = hits[j].also
      <3>1. j = i + 1 \/ j \in 1 .. i
        BY <2>1
      <3> QED BY <2>1, <2>5, <2>6, <3>1
    <2> QED BY <2>6, <2>7
  <1> HIDE DEF T
  <1>7. n \in T
    BY <1>1, <1>5, <1>6, SetInduction
  <1>8. /\ kept[n] \subseteq Elements(hits)
        /\ \A j \in 1 .. n : \E h \in kept[n] : h.also = hits[j].also
    BY <1>1, <1>7 DEF T
  <1> HIDE DEF n
  <1> QED BY <1>1, <1>3, <1>8 DEF Elements

(* A domain that is in a database is told with its database. *)
LEMMA DatabasesListed ==
  ASSUME NEW s \in Seq(TextEntries),
         \A place \in Groups(Bad(s)) : Len(Of(Bad(s), place)) <= Room(place)
  PROVE  {m[2][1] : m \in {m \in ScanDatabases(s) : m[1] = "warn"}}
           = {Bad(s)[i].also : i \in DOMAIN Bad(s)}
  <1> DEFINE known == InspectTexts(Bad(s))
             warnings == {<<"warn", <<h.also, h.shown>>>> : h \in known}
  <1>1. {h.also : h \in known} = {Bad(s)[i].also : i \in DOMAIN Bad(s)}
    <2>1. Bad(s) \in Seq(TextEntries)
      BY Selections
    <2> QED BY <2>1, AllInspected
  <1>2. ScanDatabases(s) = Lines("db", Marked(s)) \cup warnings
          \cup IF known = {} THEN Says("ok") ELSE Message("info", Cardinality(known))
    BY DEF ScanDatabases
  <1> HIDE DEF known
  <1>3. \A m \in warnings : m[1] = "warn"
    OBVIOUS
  <1>4. {m \in ScanDatabases(s) : m[1] = "warn"} = warnings
    <2> HIDE DEF warnings
    <2> QED BY <1>2, <1>3, TagsOf
  <1>5. {m[2][1] : m \in warnings} = {h.also : h \in known}
    <2>1. \A m \in warnings : \E h \in known : m[2][1] = h.also
      OBVIOUS
    <2>2. ASSUME NEW h \in known PROVE \E m \in warnings : m[2][1] = h.also
      <3>1. <<"warn", <<h.also, h.shown>>>> \in warnings
        OBVIOUS
      <3>2. <<"warn", <<h.also, h.shown>>>>[2][1] = h.also
        OBVIOUS
      <3> HIDE DEF warnings
      <3> QED BY <3>1, <3>2, Zenon
    <2> HIDE DEF warnings
    <2> QED BY <2>1, <2>2
  <1> QED BY <1>1, <1>4, <1>5

(* Which tag the list of a scanner has, if it has one.                      *)
ListTag ==
  CASE scanner \in {"hosts", "ipsec_policy"} -> "item"
    [] scanner \in {"numeric_system_files", "group_policy_registry", "firefox_extensions",
                    "notification_origins", "machine_com_targets"} -> "check"
    [] scanner = "extension_metadata" -> "check id"
    [] OTHER -> "warn"

OfTwoTags ==
  {"wmi_persistence", "hidden_executables", "appcert_dlls", "environment_and_logon",
   "browser_policies", "suspicious_file_signatures"}

(* The limits, list by list. *)
LEMMA RoomIs ==
  ASSUME NEW s, Fits(s)
  PROVE  /\ scanner = "hosts" => Len(Findings(s)) <= Cap[4]
         /\ scanner \in {"bits_jobs", "winsock", "wmi_persistence"} => Len(Findings(s)) <= Cap[5]
         /\ scanner = "ie_elevation_policy" => Len(Findings(s)) <= Cap[6]
         /\ scanner \in {"environment_and_logon", "uninstall_entries", "browser_shortcuts",
                         "ipsec_policy"} => Len(Findings(s)) <= Cap[8]
         /\ scanner = "appcert_dlls" => Len(Findings(s)) <= Cap[15]
         /\ scanner \in {"hidden_executables", "firefox_extensions", "safer_policy",
                         "safeboot_overrides", "mozilla_plugins"} => Len(Findings(s)) <= Cap[20]
         /\ scanner \in {"app_paths", "firewall_rules"} => Len(Findings(s)) <= Cap[25]
         /\ scanner \in {"user_com_persistence", "numeric_system_files",
                         "notification_origins", "machine_com_targets"} =>
              Len(Findings(s)) <= Cap[30]
         /\ scanner = "suspicious_file_signatures" => Len(On(s)) <= Cap[12]
         /\ scanner = "execution_restrictions" =>
              \A key \in Groups(Bad(s)) : Len(Of(Bad(s), key)) <= Cap[6]
         /\ scanner = "databases" =>
              \A place \in Groups(Bad(s)) : Len(Of(Bad(s), place)) <= Room(place)
  <1>1. /\ DOMAIN ListRoom =
             {"hosts", "bits_jobs", "winsock", "wmi_persistence", "environment_and_logon",
              "uninstall_entries", "browser_shortcuts", "ie_elevation_policy",
              "user_com_persistence", "hidden_executables", "numeric_system_files",
              "firefox_extensions", "notification_origins", "machine_com_targets", "app_paths",
              "firewall_rules", "safer_policy", "safeboot_overrides", "mozilla_plugins",
              "ipsec_policy", "appcert_dlls"}
        /\ ListRoom["hosts"] = Cap[4] /\ ListRoom["bits_jobs"] = Cap[5]
        /\ ListRoom["winsock"] = Cap[5] /\ ListRoom["wmi_persistence"] = Cap[5]
        /\ ListRoom["environment_and_logon"] = Cap[8] /\ ListRoom["uninstall_entries"] = Cap[8]
        /\ ListRoom["browser_shortcuts"] = Cap[8] /\ ListRoom["ie_elevation_policy"] = Cap[6]
        /\ ListRoom["user_com_persistence"] = Cap[30] /\ ListRoom["hidden_executables"] = Cap[20]
        /\ ListRoom["numeric_system_files"] = Cap[30] /\ ListRoom["firefox_extensions"] = Cap[20]
        /\ ListRoom["notification_origins"] = Cap[30]
        /\ ListRoom["machine_com_targets"] = Cap[30]
        /\ ListRoom["app_paths"] = Cap[25] /\ ListRoom["firewall_rules"] = Cap[25]
        /\ ListRoom["safer_policy"] = Cap[20] /\ ListRoom["safeboot_overrides"] = Cap[20]
        /\ ListRoom["mozilla_plugins"] = Cap[20] /\ ListRoom["ipsec_policy"] = Cap[8]
        /\ ListRoom["appcert_dlls"] = Cap[15]
    BY DEF ListRoom
  <1> QED BY <1>1 DEF Fits

(* A report whose list has one tag lists the findings under it.             *)
LEMMA FindingsListed ==
  ASSUME NEW s \in Seq(TextEntries), Fits(s), Able(s),
         scanner \in Scanners, scanner \notin OnlyCounts \cup OfTwoTags \cup {"databases"}
  PROVE  Lists(Reports(s)[scanner], ListTag, Findings(s))
  <1>1. scanner \in {"hosts", "notification_origins", "extension_metadata"} => Failed(s) = <<>>
    BY DEF Able, GivesUp
  <1> DEFINE Is(c, report, tag, x) ==
        scanner = c => Reports(s)[scanner] = report /\ ListTag = tag /\ Findings(s) = x
  <1>2. /\ Is("hosts", ScanHosts(s), "item", On(s))
        /\ Is("numeric_system_files", ScanNumericSystemFiles(s), "check", On(s))
        /\ Is("notification_origins", ScanNotificationOrigins(s), "check", On(s))
        /\ Is("machine_com_targets", ScanMachineCom(s), "check", On(s))
        /\ Is("group_policy_registry", ScanGroupPolicyRegistry(s), "check", Bad(s))
        /\ Is("extension_metadata", ScanExtensionMetadata(s), "check id", Bad(s))
        /\ Is("firefox_extensions", ScanFirefox(s), "check", Bad(s))
        /\ Is("ipsec_policy", ScanIpsecPolicy(s), "item", Bad(s))
        /\ Is("ie_search_and_storage", ScanIeSearchAndStorage(s), "warn", Bad(Plain(s)))
    BY DEF Reports, ListTag, Findings, ListsAll
  <1>3. /\ Is("registry_autoruns", ScanRegistryAutoruns(s), "warn", Bad(s))
        /\ Is("startup_folders", ScanStartupFolders(s), "warn", Bad(s))
        /\ Is("services", ScanServices(s), "warn", Bad(s))
        /\ Is("scheduled_tasks", ScanScheduledTasks(s), "warn", Bad(s))
        /\ Is("service_dlls", ScanServiceDlls(s), "warn", Bad(s))
        /\ Is("ifeo_debuggers", ScanIfeoDebuggers(s), "warn", Bad(s))
        /\ Is("file_associations", ScanFileAssociations(s), "warn", Bad(s))
        /\ Is("active_setup", ScanActiveSetup(s), "warn", Bad(s))
        /\ Is("fake_system_processes", ScanFakeSystemProcesses(s), "warn", Bad(s))
        /\ Is("service_driver_combinations", ScanServiceDrivers(s), "warn", Bad(s))
        /\ Is("proxy_pac", ScanProxyPac(s), "warn", Bad(s))
        /\ Is("policy_autoruns", ScanPolicyAutoruns(s), "warn", Bad(s))
    BY DEF Reports, ListTag, Findings, ListsAll
  <1>4. /\ Is("bits_jobs", ScanBitsJobs(s), "warn", Bad(s))
        /\ Is("winsock", ScanWinsock(s), "warn", Bad(s))
        /\ Is("uninstall_entries", ScanUninstallEntries(s), "warn", Bad(s))
        /\ Is("browser_shortcuts", ScanBrowserShortcuts(s), "warn", Bad(s))
        /\ Is("ie_elevation_policy", ScanIeElevationPolicy(s), "warn", Bad(s))
        /\ Is("user_com_persistence", ScanUserCom(s), "warn", Bad(s))
        /\ Is("app_paths", ScanAppPaths(s), "warn", Bad(s))
        /\ Is("firewall_rules", ScanFirewallRules(s), "warn", Bad(s))
        /\ Is("execution_restrictions", ScanExecutionRestrictions(s), "warn", Bad(s))
        /\ Is("safer_policy", ScanSaferPolicy(s), "warn", Bad(s))
        /\ Is("safeboot_overrides", ScanSafebootOverrides(s), "warn", Bad(s))
        /\ Is("mozilla_plugins", ScanMozillaPlugins(s), "warn", Bad(s))
    BY DEF Reports, ListTag, Findings, ListsAll
  <1>5. CASE scanner \in {"hosts", "numeric_system_files", "notification_origins",
                          "machine_com_targets", "group_policy_registry", "extension_metadata",
                          "firefox_extensions", "ipsec_policy", "ie_search_and_storage"}
    BY <1>1, <1>2, <1>5, RoomIs, ListsListed, ShortWarningsListed, WarningsListed, MachineComListed
  <1>6. CASE scanner \in {"registry_autoruns", "startup_folders", "services", "scheduled_tasks",
                          "service_dlls", "ifeo_debuggers", "file_associations", "active_setup",
                          "fake_system_processes", "service_driver_combinations", "proxy_pac",
                          "policy_autoruns"}
    BY <1>3, <1>6, WarningsListed
  <1>7. CASE scanner \in {"bits_jobs", "winsock", "uninstall_entries", "browser_shortcuts",
                          "ie_elevation_policy", "user_com_persistence", "app_paths",
                          "firewall_rules", "execution_restrictions", "safer_policy",
                          "safeboot_overrides", "mozilla_plugins"}
    BY <1>4, <1>7, RoomIs, ShortWarningsListed, UserComListed, RestrictionsListed
  <1> QED BY <1>5, <1>6, <1>7 DEF Scanners, Reports, OnlyCounts, OfTwoTags

(* The others list parts of them under several tags.                        *)
LEMMA PartsListed ==
  ASSUME NEW s \in Seq(TextEntries), Fits(s)
  PROVE  /\ scanner \in {"wmi_persistence", "hidden_executables", "appcert_dlls"} =>
              /\ Lists(Reports(s)[scanner], "warn", Bad(s))
              /\ Lists(Reports(s)[scanner],
                       IF scanner = "wmi_persistence" THEN "item" ELSE "check", Good(s))
              /\ Shown(Findings(s)) = Shown(Bad(s)) \cup Shown(Good(s))
         /\ scanner = "environment_and_logon" =>
              /\ Lists(Reports(s)[scanner], "warn", Bad(Plain(s)))
              /\ Lists(Reports(s)[scanner], "warn logon", Bad(Marked(s)))
              /\ Shown(Findings(s)) = Shown(Bad(Plain(s))) \cup Shown(Bad(Marked(s)))
         /\ scanner = "browser_policies" =>
              /\ Reports(s)[scanner] = ScanBrowserPolicies(s)
              /\ Lists(Reports(s)[scanner], "check", Plain(On(s)))
              /\ On(s) # <<>> => Lists(Reports(s)[scanner], "info", Marked(On(s)))
              /\ Shown(Findings(s)) = Shown(Plain(On(s))) \cup Shown(Marked(On(s)))
  <1>1. scanner \in {"wmi_persistence", "hidden_executables", "appcert_dlls",
                     "browser_policies"} => Findings(s) = On(s)
    BY DEF Findings, ListsAll
  <1>2. scanner = "environment_and_logon" => Findings(s) = Bad(s)
    BY DEF Findings, ListsAll
  <1>3. /\ Reports(s)["wmi_persistence"] = ScanWmiPersistence(s)
        /\ Reports(s)["hidden_executables"] = ScanHiddenExecutables(s)
        /\ Reports(s)["appcert_dlls"] = ScanAppcertDlls(s)
        /\ Reports(s)["environment_and_logon"] = ScanEnvironment(s)
        /\ Reports(s)["browser_policies"] = ScanBrowserPolicies(s)
    BY DEF Reports
  <1>4. CASE scanner \in {"wmi_persistence", "hidden_executables", "appcert_dlls"}
    BY <1>1, <1>3, <1>4, RoomIs, ListsListed, ShownOfParts
  <1>5. CASE scanner = "environment_and_logon"
    BY <1>2, <1>3, <1>5, RoomIs, ListsListed, ShownOfParts
  <1>6. CASE scanner = "browser_policies"
    BY <1>1, <1>3, <1>6, ListsListed, ShownOfParts
  <1> QED BY <1>4, <1>5, <1>6

(* What two reports list under a tag looks alike if they agree on it.       *)
LEMMA ListsShow ==
  ASSUME NEW R, NEW Q, NEW tag, NEW x, NEW y, scanner # "databases",
         tag # "db", Normalize(R) = Normalize(Q), Lists(R, tag, x), Lists(Q, tag, y)
  PROVE  Shown(x) = Shown(y)
  <1>1. \A m : m[1] = tag => (m \in R <=> m \in Q)
    BY DEF Normalize
  <1>2. \A m : m \in Lines(tag, x) <=> m \in Lines(tag, y)
    BY <1>1, TagsOf DEF Lists
  <1>3. \A z, i : i \in DOMAIN z => <<tag, z[i].shown>> \in Lines(tag, z)
    BY DEF Lines
  <1>4. \A z, m : m \in Lines(tag, z) => \E i \in DOMAIN z : m[2] = z[i].shown
    BY DEF Lines
  <1>5. ASSUME NEW a, NEW b, \A m : m \in Lines(tag, a) => m \in Lines(tag, b)
        PROVE  Shown(a) \subseteq Shown(b)
    <2> SUFFICES ASSUME NEW i \in DOMAIN a PROVE a[i].shown \in Shown(b)
      BY DEF Shown
    <2>1. <<tag, a[i].shown>> \in Lines(tag, b)
      BY <1>3, <1>5
    <2>2. PICK j \in DOMAIN b : a[i].shown = b[j].shown
      BY <1>4, <2>1
    <2> QED BY <2>2 DEF Shown
  <1>6. Shown(x) \subseteq Shown(y)
    BY <1>2, <1>5
  <1>7. Shown(y) \subseteq Shown(x)
    BY <1>2, <1>5
  <1> QED BY <1>6, <1>7

(* Equal reports show equal findings, where the lists had room for them.    *)
LEMMA SameReportSameFindings ==
  ASSUME scanner \in Scanners, scanner \notin OnlyCounts,
         NEW s \in Seq(TextEntries), NEW t \in Seq(TextEntries),
         Fits(s), Fits(t), Able(s), Able(t),
         Normalize(Reports(s)[scanner]) = Normalize(Reports(t)[scanner])
  PROVE  Shown(Findings(s)) = Shown(Findings(t))
  <1> DEFINE R == Reports(s)[scanner]
             Q == Reports(t)[scanner]
  <1>1. CASE scanner \notin OfTwoTags \cup {"databases"}
    <2>1. ListTag # "db"
      BY DEF ListTag
    <2> QED BY <1>1, <2>1, FindingsListed, ListsShow
  <1>0. \A tag, x, y : scanner # "databases" /\ tag # "db" /\ Lists(R, tag, x) /\ Lists(Q, tag, y)
          => Shown(x) = Shown(y)
    BY ListsShow
  <1>2. CASE scanner \in {"wmi_persistence", "hidden_executables", "appcert_dlls"}
    <2> DEFINE other == IF scanner = "wmi_persistence" THEN "item" ELSE "check"
    <2>1. other # "db"
      OBVIOUS
    <2> HIDE DEF other
    <2>2. /\ Lists(R, "warn", Bad(s)) /\ Lists(Q, "warn", Bad(t))
          /\ Lists(R, other, Good(s)) /\ Lists(Q, other, Good(t))
      BY <1>2, PartsListed DEF other
    <2>3. Shown(Bad(s)) = Shown(Bad(t)) /\ Shown(Good(s)) = Shown(Good(t))
      <3> HIDE DEF R, Q
      <3> QED BY <1>0, <1>2, <2>1, <2>2
    <2> QED BY <1>2, <2>3, PartsListed
  <1>3. CASE scanner = "environment_and_logon"
    <2>1. /\ Lists(R, "warn", Bad(Plain(s))) /\ Lists(Q, "warn", Bad(Plain(t)))
          /\ Lists(R, "warn logon", Bad(Marked(s))) /\ Lists(Q, "warn logon", Bad(Marked(t)))
      BY <1>3, PartsListed
    <2>2. /\ Shown(Bad(Plain(s))) = Shown(Bad(Plain(t)))
          /\ Shown(Bad(Marked(s))) = Shown(Bad(Marked(t)))
      <3> HIDE DEF R, Q
      <3> QED BY <1>0, <1>3, <2>1
    <2> QED BY <1>3, <2>2, PartsListed
  <1>4. CASE scanner = "browser_policies"
    <2>1. Lists(R, "check", Plain(On(s))) /\ Lists(Q, "check", Plain(On(t)))
      BY <1>4, PartsListed
    <2>2. Shown(Plain(On(s))) = Shown(Plain(On(t)))
      <3> HIDE DEF R, Q
      <3> QED BY <1>0, <1>4, <2>1
    <2>3. (On(s) = <<>>) = (On(t) = <<>>)
      <3>1. \A x : On(x) = <<>> => <<"info none">> \in ScanBrowserPolicies(x)
        BY DEF ScanBrowserPolicies, Says
      <3>2. \A x : On(x) # <<>> => <<"info none">> \notin ScanBrowserPolicies(x)
        <4>1. "info none" # "info" /\ "info none" # "check" /\ <<"info none">>[1] = "info none"
          OBVIOUS
        <4> QED BY <4>1, TagsOf DEF ScanBrowserPolicies
      <3>3. <<"info none">> \in R <=> <<"info none">> \in Q
        <4>1. <<"info none">>[1] # "db"
          OBVIOUS
        <4> QED BY <4>1 DEF Normalize
      <3>4. R = ScanBrowserPolicies(s) /\ Q = ScanBrowserPolicies(t)
        BY <1>4, PartsListed
      <3> QED BY <3>1, <3>2, <3>3, <3>4
    <2>4. CASE On(s) # <<>>
      <3>1. Lists(R, "info", Marked(On(s))) /\ Lists(Q, "info", Marked(On(t)))
        BY <1>4, <2>3, <2>4, PartsListed
      <3>2. Shown(Marked(On(s))) = Shown(Marked(On(t)))
        <4> HIDE DEF R, Q
        <4> QED BY <1>0, <1>4, <3>1
      <3> QED BY <1>4, <2>2, <3>2, PartsListed
    <2>5. CASE On(s) = <<>>
      <3>1. Findings(s) = On(s) /\ Findings(t) = On(t)
        BY <1>4 DEF Findings, ListsAll
      <3> QED BY <2>3, <2>5, <3>1
    <2> QED BY <2>4, <2>5
  <1>5. CASE scanner = "suspicious_file_signatures"
    <2> DEFINE failed(x) == Failed(Others(On(x)))
               valid(x) == Marked(Answered(Others(On(x))))
               warned(x) == Plain(Bad(Answered(Others(On(x)))))
               checked(x) == Plain(Good(Answered(Others(On(x)))))
    <2>1. R = ScanFileSignatures(s) /\ Q = ScanFileSignatures(t)
      BY <1>5 DEF Reports
    <2>2. Len(On(s)) <= Cap[12] /\ Len(On(t)) <= Cap[12]
      BY <1>5, RoomIs
    <2>3. /\ Lists(R, "info failed", failed(s)) /\ Lists(Q, "info failed", failed(t))
          /\ Lists(R, "valid", valid(s)) /\ Lists(Q, "valid", valid(t))
          /\ Lists(R, "warn", warned(s)) /\ Lists(Q, "warn", warned(t))
          /\ Lists(R, "check", checked(s)) /\ Lists(Q, "check", checked(t))
      BY <2>1, <2>2, SignaturesListed
    <2>4. /\ Shown(failed(s)) = Shown(failed(t)) /\ Shown(valid(s)) = Shown(valid(t))
          /\ Shown(warned(s)) = Shown(warned(t)) /\ Shown(checked(s)) = Shown(checked(t))
      <3> HIDE DEF R, Q, failed, valid, warned, checked
      <3> QED BY <1>0, <1>5, <2>3
    <2>5. \A x \in Seq(TextEntries) : Shown(Others(On(x))) =
            Shown(failed(x)) \cup Shown(valid(x)) \cup Shown(warned(x)) \cup Shown(checked(x))
      BY ShownOfAnswers
    <2>6. Findings(s) = Others(On(s)) /\ Findings(t) = Others(On(t))
      BY <1>5 DEF Findings, ListsAll
    <2> HIDE DEF failed, valid, warned, checked
    <2> QED BY <2>4, <2>5, <2>6
  <1>6. CASE scanner = "databases"
    <2> DEFINE Warned(report) == {m[2][1] : m \in {m \in report : m[1] = "warn"}}
    <2>1. Reports(s)[scanner] = ScanDatabases(s) /\ Reports(t)[scanner] = ScanDatabases(t)
      BY <1>6 DEF Reports
    <2>2. {m \in R : m[1] = "warn"} = {m \in Q : m[1] = "warn"}
      BY DEF Normalize
    <2>3. Warned(R) = Warned(Q)
      <3> HIDE DEF R, Q
      <3> QED BY <2>2
    <2>4. /\ Warned(ScanDatabases(s)) = {Bad(s)[i].also : i \in DOMAIN Bad(s)}
          /\ Warned(ScanDatabases(t)) = {Bad(t)[i].also : i \in DOMAIN Bad(t)}
      BY <1>6, RoomIs, DatabasesListed
    <2>5. Findings(s) = Bad(s) /\ Findings(t) = Bad(t)
      BY <1>6 DEF Findings, ListsAll
    <2>6. \A x : Shown(x) = {x[i].also : i \in DOMAIN x}
      BY <1>6 DEF Shown
    <2> HIDE DEF Warned
    <2> QED BY <2>1, <2>3, <2>4, <2>5, <2>6
  <1> QED BY <1>1, <1>2, <1>3, <1>4, <1>5, <1>6 DEF OfTwoTags

(* What a comparison with a complete file tells is true of the machine of   *)
(* then and the one of now, for every scanner, all texts that Windows may   *)
(* answer and all limits of the lists: it reports a change only if entries  *)
(* that this scanner looks at, or the failures it reports, have changed,    *)
(* and none only if the findings look alike, if the scanner got its answers *)
(* and its list had room for them (baseline.rs:56-92, 118-128, and the      *)
(* scanners).                                                               *)
THEOREM ComparisonsAreTrue == WinSpec => []ComparisonIsTrue
  <1>1. ASSUME WinIInv, told.state = "whole" PROVE ComparisonIsTrue
    <2>1. /\ told.then \in Seq(TextEntries) /\ told.now \in Seq(TextEntries)
          /\ told.then \in Machines /\ told.now \in Machines /\ scanner \in Scanners
      BY <1>1, BaselineAssumption DEF WinIInv, WinTypeOK, BaseTypeOK, AnswersCompareReports
    <2>2. /\ Report(told.then) = Normalize(Reports(told.then)[scanner])
          /\ Report(told.now) = Normalize(Reports(told.now)[scanner])
      BY <2>1 DEF Report, ReportsOf
    <2>3. told.answer = "same" <=> Report(told.then) = Report(told.now)
      BY <1>1 DEF WinIInv, AnswersCompareReports
    <2>4. NoFalseAlarm
      BY <2>1, <2>2, <2>3, ReportsAreOfConcerns DEF NoFalseAlarm
    <2>5. NoMissedFinding
      BY <2>1, <2>2, <2>3, SameReportSameFindings DEF NoMissedFinding
    <2> QED BY <2>4, <2>5 DEF ComparisonIsTrue
  <1>2. told.state # "whole" => ComparisonIsTrue
    BY DEF ComparisonIsTrue, NoFalseAlarm, NoMissedFinding
  <1>3. WinIInv => ComparisonIsTrue
    BY <1>1, <1>2
  <1> QED BY WinInductiveInvariant, <1>3, PTL
=============================================================================
