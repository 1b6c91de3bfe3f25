-------------------------- MODULE InstallFileProofs --------------------------
(***************************************************************************)
(* Proofs about InstallFile for every set of contents and every number of  *)
(* kills.                                                                  *)
(***************************************************************************)
EXTENDS InstallFile, TLAPS

(* The complete new content is where the current step takes it from or has  *)
(* put it, also after earlier kills.                                        *)
NewIsOnItsWay ==
  /\ pc # "idle" => new \in Data
  /\ pc = "clear" => fs["source"] = new
  /\ pc \in {"rename", "copy"} /\ stage \in {"save", "install"} => fs["source"] = new
  /\ pc = "drop" /\ stage \in {"save", "install"} => fs["source"] = new
  /\ pc = "drop" /\ stage = "install" => fs["live"] = new
  /\ pc = "done" => fs["live"] = new

(* Where the last good content is at each step of an undisturbed update.    *)
GoodIsAtItsPlace ==
  /\ pc \in {"idle", "clear", "failed", "done"} => fs["live"] = good
  /\ pc \in {"rename", "copy"} => (had <=> good # Absent)
  /\ pc \in {"rename", "copy", "drop"} /\ stage # "install" =>
       had /\ good # Absent
  /\ pc \in {"rename", "copy", "drop"} /\ stage = "save" => fs["live"] = good
  /\ pc = "drop" /\ stage = "save" => fs["backup"] = good
  /\ pc = "rename" /\ stage # "save" => fs["live"] = Absent
  /\ pc \in {"rename", "copy"} /\ stage = "install" /\ had => fs["backup"] = good
  /\ pc = "drop" /\ stage = "install" => fs["live"] = good
  /\ pc \in {"rename", "copy", "drop"} /\ stage = "rollback" => fs["backup"] = good
  /\ pc = "drop" /\ stage = "rollback" => fs["live"] = good

(* Where the content of before is at each step, also after earlier kills.   *)
OldIsAtItsPlace ==
  /\ pc = "clear" => fs["live"] = old
  /\ pc \in {"rename", "copy", "drop"} =>
       /\ had <=> old # Absent
       /\ stage # "install" => had
       /\ stage = "save" => fs["live"] = old
       /\ stage = "rollback" => fs["backup"] = old
  /\ pc = "rename" /\ stage # "save" => fs["live"] = Absent
  /\ pc \in {"rename", "copy"} /\ stage = "install" /\ had => fs["backup"] = old
  /\ pc = "drop" /\ stage = "save" => fs["backup"] = old
  /\ pc = "drop" /\ stage = "rollback" => fs["live"] = old
  /\ pc = "failed" => fs["live"] \in {old, new, Absent}

(* The two safety invariants are about the resting states and about         *)
(* existence only; what keeps them is where the content is at each step.    *)
IInv ==
  /\ TypeOK
  /\ NewIsOnItsWay
  /\ OldIsAtItsPlace
  /\ ~Harmed => GoodIsAtItsPlace

-----------------------------------------------------------------------------
(* Initially nothing is under way and the live file is the good one. *)
LEMMA InitIInv == Init => IInv
  <1> SUFFICES ASSUME Init PROVE IInv
    OBVIOUS
  <1>1. fs \in [Files -> Content] /\ fs["live"] \in Data \cup {Absent}
    <2>1. CASE fs = [f \in Files |-> Absent]
      BY <2>1 DEF Files, Content
    <2>2. CASE fs \in {[source |-> Absent, live |-> d, backup |-> Absent] : d \in Data}
      BY <2>2 DEF Files, Content
    <2> QED BY <2>1, <2>2 DEF Init
  <1>2. /\ pc = "idle" /\ stage = "save" /\ had = FALSE /\ kills = 0
        /\ rollbackFailed = FALSE /\ new = Absent /\ old = fs["live"] /\ good = fs["live"]
    BY DEF Init
  <1>3. TypeOK
    <2>1. kills \in 0 .. MaxKills
      BY <1>2, InstallAssumption, SMT
    <2>2. had \in BOOLEAN /\ rollbackFailed \in BOOLEAN
      BY <1>2, Zenon
    <2>3. pc \in Steps /\ stage \in Stages /\ new \in Content /\ old \in Content
      BY <1>1, <1>2 DEF Steps, Stages, Content
    <2> QED BY <1>1, <1>2, <2>1, <2>2, <2>3 DEF TypeOK
  <1>4. NewIsOnItsWay /\ OldIsAtItsPlace /\ GoodIsAtItsPlace
    BY <1>2 DEF NewIsOnItsWay, OldIsAtItsPlace, GoodIsAtItsPlace
  <1> QED BY <1>3, <1>4 DEF IInv

(* What a failed move does: it is rolled back or returned as Err, and it    *)
(* clears rollbackFailed never (updater.rs:183-190).                        *)
LEMMA FailedMove ==
  ASSUME TypeOK, MoveFailed
  PROVE  /\ rollbackFailed' \in BOOLEAN
         /\ ~rollbackFailed' => ~rollbackFailed
         /\ ~rollbackFailed' /\ stage = "rollback" => fs'["live"] \in Data
         /\ \/ stage' = stage /\ pc' = "failed"
               /\ ~(stage = "install" /\ had /\ fs'["backup"] # Absent /\ fs'["live"] = Absent)
            \/ stage' = "rollback" /\ pc' = "rename" /\ stage = "install" /\ had
               /\ fs'["backup"] # Absent /\ fs'["live"] = Absent
  <1>1. CASE stage = "rollback" /\ fs'["live"] \notin Data
    BY <1>1, Zenon DEF TypeOK, MoveFailed
  <1>2. CASE ~(stage = "rollback" /\ fs'["live"] \notin Data)
    BY <1>2, Zenon DEF TypeOK, MoveFailed
  <1> QED BY <1>1, <1>2

(* Every file operation, whether it works or fails, and every kill keeps    *)
(* the invariant (updater.rs:176-203).                                      *)
LEMMA StepIInv == IInv /\ Next => IInv'
  <1> SUFFICES ASSUME IInv, Next PROVE IInv'
    OBVIOUS
  <1> USE InstallAssumption
          DEF IInv, TypeOK, Files, Content, Steps, Stages, From, To,
              NewIsOnItsWay, OldIsAtItsPlace, Harmed, GoodIsAtItsPlace
  <1>1. CASE \E d \in Data : Begin(d)  BY <1>1 DEF Begin
  <1>2. CASE ClearBackup               BY <1>2 DEF ClearBackup
  <1>3. CASE RenameOk                  BY <1>3 DEF RenameOk, MoveOk, NoteGood
  <1>4. CASE StartCopy                 BY <1>4 DEF StartCopy
  <1>5. CASE CopyRefused
    <2> USE <1>5, FailedMove DEF CopyRefused
    <2>1. CASE stage = "save"      BY <2>1
    <2>2. CASE stage = "install"   BY <2>2
    <2>3. CASE stage = "rollback"  BY <2>3
    <2> QED BY <2>1, <2>2, <2>3
  <1>6. CASE FinishCopy
    <2> USE <1>6 DEF FinishCopy, NoteGood
    <2>1. CASE stage = "save"      BY <2>1
    <2>2. CASE stage = "install"   BY <2>2
    <2>3. CASE stage = "rollback"  BY <2>3
    <2> QED BY <2>1, <2>2, <2>3
  <1>7. CASE CopyFails                 BY <1>7, FailedMove DEF CopyFails
  <1>8. CASE DropOk                    BY <1>8 DEF DropOk, MoveOk
  <1>9. CASE DropFails                 BY <1>9, FailedMove DEF DropFails
  <1>10. CASE ReturnErr                BY <1>10 DEF ReturnErr
  <1>11. CASE ReturnOk                 BY <1>11 DEF ReturnOk
  <1>12. CASE Kill                     BY <1>12 DEF Kill
  <1> QED BY <1>1, <1>2, <1>3, <1>4, <1>5, <1>6, <1>7, <1>8, <1>9, <1>10,
             <1>11, <1>12 DEF Next

(* A step that changes nothing keeps it, too. *)
LEMMA StutterIInv == IInv /\ UNCHANGED vars => IInv'
  BY DEF IInv, vars, TypeOK, NewIsOnItsWay, OldIsAtItsPlace, Harmed, GoodIsAtItsPlace

(* The invariant holds in every reachable state. *)
THEOREM InductiveInvariant == Spec => []IInv
  <1>1. IInv /\ [Next]_vars => IInv'
    BY StepIInv, StutterIInv
  <1> QED BY InitIInv, <1>1, PTL DEF Spec

-----------------------------------------------------------------------------
(* Every variable has its type in every reachable state. *)
THEOREM TypeCorrect == Spec => []TypeOK
  <1>1. IInv => TypeOK BY DEF IInv
  <1> QED BY InductiveInvariant, <1>1, PTL

(* When an installation returns Ok, the complete new content is live,       *)
(* whatever kills and failures came before it.                              *)
THEOREM SuccessMeansInstalled == Spec => []SuccessInstalls
  <1>1. IInv => SuccessInstalls BY DEF IInv, NewIsOnItsWay, SuccessInstalls
  <1> QED BY InductiveInvariant, <1>1, PTL

(* Without a kill and a failed rollback no failing file operation loses the *)
(* last good content, at any moment.                                        *)
THEOREM NothingLost == Spec => []GoodContentKept
  <1>1. IInv => GoodContentKept
    BY DEF IInv, TypeOK, Steps, Stages, GoodIsAtItsPlace, GoodContentKept
  <1> QED BY InductiveInvariant, <1>1, PTL

(* Without a kill and a failed rollback the live file is the last good one  *)
(* whenever no update is under way.                                         *)
THEOREM LiveGoodAtRest == Spec => []LiveIsGoodAtRest
  <1>1. IInv => LiveIsGoodAtRest
    BY DEF IInv, GoodIsAtItsPlace, LiveIsGoodAtRest
  <1> QED BY InductiveInvariant, <1>1, PTL

(* Both together: no installation that fails loses what was good, at the    *)
(* moment it fails or afterwards (updater.rs:176-203).                      *)
THEOREM NothingGoodIsLost == Spec => []GoodContentSafe
  <1>1. GoodContentKept /\ LiveIsGoodAtRest => GoodContentSafe
    BY DEF GoodContentSafe
  <1> QED BY NothingLost, LiveGoodAtRest, <1>1, PTL

(* A move that fails in a rollback has not touched the backup it copies     *)
(* from, and no other failed move counts as harm (updater.rs:185-190).      *)
LEMMA FailedRollback ==
  ASSUME TypeOK, MoveFailed, ~rollbackFailed, rollbackFailed'
  PROVE  stage = "rollback"
  BY Zenon DEF TypeOK, MoveFailed

(* The first kill or failed rollback leaves the last good content live or   *)
(* in the backup: only a second one can lose it (updater.rs:176-203).       *)
THEOREM FirstHarmIsSurvived == Spec => FirstHarmKeepsGood
  <1> DEFINE Kept == good # Absent => good \in {fs'["live"], fs'["backup"]}
  <1>1. IInv /\ [Next]_vars => [~Harmed /\ Harmed' => Kept]_vars
    <2> SUFFICES ASSUME IInv, Next, ~Harmed, Harmed', good # Absent
                 PROVE  good \in {fs'["live"], fs'["backup"]}
      OBVIOUS
    <2>1. CASE Kill
      <3>1. fs' = fs
        BY <2>1 DEF Kill
      <3>2. good \in {fs["live"], fs["backup"]}
        BY DEF IInv, TypeOK, Steps, Stages, GoodIsAtItsPlace
      <3> QED BY <3>1, <3>2
    <2>2. CASE ~Kill
      <3>1. ~rollbackFailed /\ rollbackFailed'
        BY <2>2 DEF Harmed, Next, Begin, ClearBackup, RenameOk, StartCopy, CopyRefused,
             FinishCopy, CopyFails, DropOk, DropFails, ReturnErr, ReturnOk
      <3>2. MoveFailed /\ (CopyRefused \/ CopyFails \/ DropFails)
        BY <2>2, <3>1 DEF Next, Begin, ClearBackup, RenameOk, StartCopy, CopyRefused,
             FinishCopy, CopyFails, DropOk, DropFails, ReturnErr, ReturnOk
      <3>3. stage = "rollback"
        BY <3>1, <3>2, FailedRollback DEF IInv
      <3>4. fs["backup"] = good
        BY <3>2, <3>3 DEF IInv, GoodIsAtItsPlace, CopyRefused, CopyFails, DropFails
      <3>5. fs'["backup"] = fs["backup"]
        BY <3>2, <3>3 DEF IInv, TypeOK, Files, To, CopyRefused, CopyFails, DropFails
      <3> QED BY <3>4, <3>5
    <2> QED BY <2>1, <2>2
  <1> QED BY InductiveInvariant, <1>1, PTL DEF Spec, FirstHarmKeepsGood, Kept

-----------------------------------------------------------------------------
(* Every file operation is a step of Installation or leaves all it shows as *)
(* it is (updater.rs:171-203).                                              *)
LEMMA StepRefines ==
  ASSUME IInv, Next
  PROVE  Promise!Next \/ UNCHANGED <<fs["live"], old, new, Phase>>
  <1> USE InstallAssumption
          DEF IInv, TypeOK, Files, Content, Steps, Stages, From, To, NewIsOnItsWay,
              OldIsAtItsPlace, Phase
  <1> DEFINE Busy == Phase = "busy" /\ UNCHANGED <<old, new>>
             Stays == UNCHANGED <<fs["live"], old, new, Phase>>
             Works == Busy /\ Phase' = "busy" /\ fs'["live"] \in {old, new, Absent, Partial}
             Succeeds == Busy /\ Phase' = "ok" /\ fs'["live"] = new
             GivesUp == Busy /\ Phase' = "err" /\ fs'["live"] \in {old, new, Absent}
             Ends == Phase # "rest" /\ Phase' = "rest" /\ UNCHANGED <<fs["live"], old, new>>
  <1>1. CASE \E d \in Data : Begin(d)
    <2>1. PICK d \in Data : Begin(d)
      BY <1>1
    <2>2. Promise!Call(d)
      BY <2>1 DEF Begin, Promise!Call
    <2> QED BY <2>2 DEF Promise!Next
  <1>2. CASE ClearBackup
    <2>1. Stays  BY <1>2 DEF ClearBackup
    <2> QED BY <2>1
  <1>3. CASE RenameOk
    <2>1. Works \/ Succeeds \/ GivesUp
      BY <1>3 DEF RenameOk, MoveOk
    <2> QED BY <2>1 DEF Promise!Next, Promise!Work, Promise!Succeed, Promise!GiveUp
  <1>4. CASE StartCopy
    <2>1. Works
      BY <1>4 DEF StartCopy
    <2> QED BY <2>1 DEF Promise!Next, Promise!Work
  <1>5. CASE CopyRefused \/ DropFails
    <2>1. Works \/ GivesUp
      BY <1>5, FailedMove DEF CopyRefused, DropFails
    <2> QED BY <2>1 DEF Promise!Next, Promise!Work, Promise!GiveUp
  <1>6. CASE FinishCopy
    <2>1. Works
      BY <1>6 DEF FinishCopy
    <2> QED BY <2>1 DEF Promise!Next, Promise!Work
  <1>7. CASE CopyFails
    <2>1. Works \/ GivesUp
      BY <1>7, FailedMove DEF CopyFails
    <2> QED BY <2>1 DEF Promise!Next, Promise!Work, Promise!GiveUp
  <1>8. CASE DropOk
    <2>1. Works \/ Succeeds \/ GivesUp
      BY <1>8 DEF DropOk, MoveOk
    <2> QED BY <2>1 DEF Promise!Next, Promise!Work, Promise!Succeed, Promise!GiveUp
  <1>9. CASE ReturnErr \/ ReturnOk \/ Kill
    <2>1. Ends
      BY <1>9 DEF ReturnErr, ReturnOk, Kill
    <2> QED BY <2>1 DEF Promise!Next, Promise!End
  <1> QED BY <1>1, <1>2, <1>3, <1>4, <1>5, <1>6, <1>7, <1>8, <1>9 DEF Next

(* What the callers of the five copies and the readers of the live file may *)
(* rely on holds after any number of failures and kills: Ok is the new      *)
(* content, and Err never a part of it.                                     *)
THEOREM InstallationIsKept == Spec => ImplementsInstallation
  <1>1. Init => Promise!Init
    BY InitIInv DEF Init, Promise!Init, Phase, IInv, TypeOK, GoodIsAtItsPlace, Harmed
  <1>2. IInv /\ [Next]_vars => Promise!Next \/ UNCHANGED <<fs["live"], old, new, Phase>>
    BY StepRefines DEF vars, Phase
  <1>3. IInv /\ [Next]_vars => [Promise!Next]_(Promise!instVars)
    BY <1>2 DEF Promise!instVars
  <1> QED BY <1>1, <1>3, InductiveInvariant, PTL
          DEF Spec, ImplementsInstallation, Promise!Spec
=============================================================================
