--------------------------- MODULE ReplaceExeProofs ---------------------------
(***************************************************************************)
(* Proofs about ReplaceExe for every set of images and every number of     *)
(* attempts.                                                               *)
(***************************************************************************)
EXTENDS ReplaceExe, TLAPS

(* The copy that is about to be renamed is complete. *)
FreshIsStaged == pc \in {"clear", "moveOld", "moveNew"} => fresh = staged

(* Where the old image is at each step, until a rename back fails.  The     *)
(* loop always begins with it in place: every failing round undoes itself.  *)
OldInPlace ==
  /\ pc \in {"copy", "clear", "moveOld", "retry", "failed"} => target = old
  /\ pc = "moveOld" => had

OldInPrevious ==
  pc \in {"moveNew", "restore"} => had /\ target = Absent /\ previous = old

(* What is at the installed path whether or not a rename back has failed:   *)
(* a round renames the old image away only after it has seen it, and then   *)
(* only that one back.                                                      *)
TargetOldOrNone ==
  /\ pc \in {"copy", "clear", "moveOld", "retry", "failed"} => target \in {old, Absent}
  /\ pc = "moveOld" => had /\ target = old
  /\ pc \in {"moveNew", "restore"} => target = Absent /\ (had => previous = old)
  /\ pc = "restore" => had

IInv ==
  /\ TypeOK
  /\ FreshIsStaged
  /\ SuccessIsStagedImage
  /\ TargetOldOrNone
  /\ ~stuck => OldInPlace /\ OldInPrevious /\ ProgramAtHand

(* The invariant holds in every reachable state.  (The whole of             *)
(* replace_installed_exe, self_update.rs:213-253, with kills.)              *)
THEOREM InductiveInvariant == Spec => []IInv
<1> USE ReplaceAssumption
<1> USE DEF TypeOK, Steps, files, history, FreshIsStaged, SuccessIsStagedImage,
            TargetOldOrNone, OldInPlace, OldInPrevious, ProgramAtHand
<1>1. Init => IInv
  <2>1. 1 \in 1 .. MaxAttempts
    OBVIOUS
  <2>2. QED
    BY <2>1, Zenon DEF Init, IInv
<1>2. IInv /\ [Next]_vars => IInv'
  <2> SUFFICES ASSUME IInv, [Next]_vars PROVE IInv'
    OBVIOUS
  <2> USE DEF IInv
  <2>1. ASSUME NEW v \in Images, Begin(v) PROVE IInv'
    BY <2>1 DEF Begin
  <2>2. CASE CopyOk
    BY <2>2 DEF CopyOk
  <2>3. CASE CopyFails
    BY <2>3 DEF CopyFails
  <2>4. CASE ClearPrevious
    <3>1. CASE target = Absent
      BY <2>4, <3>1 DEF ClearPrevious
    <3>2. CASE target # Absent
      BY <2>4, <3>2 DEF ClearPrevious
    <3>3. QED
      BY <3>1, <3>2
  <2>5. CASE MoveOldOk
    BY <2>5 DEF MoveOldOk
  <2>6. CASE MoveOldFails
    BY <2>6 DEF MoveOldFails
  <2>7. CASE MoveNewOk
    BY <2>7 DEF MoveNewOk
  <2>8. CASE MoveNewFails
    BY <2>8 DEF MoveNewFails
  <2>9. CASE Restore
    BY <2>9 DEF Restore
  <2>10. CASE RestoreFails
    BY <2>10 DEF RestoreFails
  <2>11. CASE Retry
    BY <2>11 DEF Retry
  <2>12. CASE Report
    BY <2>12 DEF Report
  <2>13. CASE Kill
    BY <2>13 DEF Kill
  <2>14. CASE UNCHANGED vars
    BY <2>14 DEF vars
  <2>15. QED
    BY <2>1, <2>2, <2>3, <2>4, <2>5, <2>6, <2>7, <2>8, <2>9, <2>10, <2>11,
       <2>12, <2>13, <2>14 DEF Next, HelperStep
<1>3. QED
  BY <1>1, <1>2, PTL DEF Spec

(* The variables keep their types, the attempts their bound. *)
THEOREM TypeCorrect == Spec => []TypeOK
<1>1. IInv => TypeOK
  BY DEF IInv
<1>2. QED
  BY <1>1, InductiveInvariant, PTL

(* The helper reports success only with the complete staged image in place. *)
THEOREM SuccessIsReal == Spec => []SuccessIsStagedImage
<1>1. IInv => SuccessIsStagedImage
  BY DEF IInv
<1>2. QED
  BY <1>1, InductiveInvariant, PTL

(* A helper that gives up leaves the installed version, unless a rename     *)
(* back to the target has failed.                                           *)
THEOREM FailureIsHarmless == Spec => []FailureLeavesInstalled
<1>1. IInv => FailureLeavesInstalled
  BY DEF IInv, OldInPlace, FailureLeavesInstalled
<1>2. QED
  BY <1>1, InductiveInvariant, PTL

(* Until then the user has the old or the new program, killed or not. *)
THEOREM ProgramIsKept == Spec => []ProgramAtHand
<1>1. IInv => ProgramAtHand
  BY DEF IInv, ProgramAtHand
<1>2. QED
  BY <1>1, InductiveInvariant, PTL

-----------------------------------------------------------------------------
(* Each step of the helper is one of an installation: every round but the   *)
(* one that succeeds works on the old image, or on none.                    *)
LEMMA StepRefines ==
  ASSUME IInv, Next
  PROVE  Promise!Next \/ UNCHANGED <<target, old, staged, Phase>>
  <1> USE ReplaceAssumption
          DEF IInv, TypeOK, files, history, FreshIsStaged, SuccessIsStagedImage,
              TargetOldOrNone, Phase
  <1> DEFINE Busy == Phase = "busy" /\ UNCHANGED <<old, staged>>
             Stays == UNCHANGED <<target, old, staged, Phase>>
             Works == Busy /\ Phase' = "busy" /\ target' \in {old, Absent}
             Succeeds == Busy /\ Phase' = "ok" /\ target' = staged
             GivesUp == Busy /\ Phase' = "err" /\ target' \in {old, Absent}
             Ends == Phase # "rest" /\ Phase' = "rest" /\ UNCHANGED <<target, old, staged>>
  <1>1. ASSUME NEW v \in Images, Begin(v) PROVE Promise!Next
    <2>1. Promise!Call(v)
      BY <1>1 DEF Begin, Promise!Call
    <2> QED BY <2>1 DEF Promise!Next
  <1>2. CASE CopyOk \/ ClearPrevious \/ MoveOldFails \/ MoveNewFails \/ RestoreFails
    <2>1. Stays
      BY <1>2 DEF CopyOk, ClearPrevious, MoveOldFails, MoveNewFails, RestoreFails
    <2> QED BY <2>1
  <1>3. CASE MoveOldOk \/ Restore
    <2>1. Works
      BY <1>3 DEF MoveOldOk, Restore
    <2> QED BY <2>1 DEF Promise!Next, Promise!Work
  <1>4. CASE MoveNewOk
    <2>1. Succeeds
      BY <1>4 DEF MoveNewOk
    <2> QED BY <2>1 DEF Promise!Next, Promise!Succeed
  <1>5. CASE CopyFails
    <2>1. GivesUp
      BY <1>5 DEF CopyFails
    <2> QED BY <2>1 DEF Promise!Next, Promise!GiveUp
  <1>6. CASE Retry
    <2>1. Stays \/ GivesUp
      BY <1>6 DEF Retry
    <2> QED BY <2>1 DEF Promise!Next, Promise!GiveUp
  <1>7. CASE Report \/ Kill
    <2>1. Ends
      BY <1>7 DEF Report, Kill
    <2> QED BY <2>1 DEF Promise!Next, Promise!End
  <1> QED BY <1>1, <1>2, <1>3, <1>4, <1>5, <1>6, <1>7 DEF Next, HelperStep

(* The installed path has the old program, the new one in full, or none,    *)
(* never a part of one, also after a rename back that failed; success is    *)
(* the new program (self_update.rs:213-253).                                *)
THEOREM ReplacementIsInstallation == Spec => ImplementsInstallation
  <1>1. Init => Promise!Init
    BY DEF Init, Promise!Init, Phase
  <1>2. IInv /\ [Next]_vars => Promise!Next \/ UNCHANGED <<target, old, staged, Phase>>
    BY StepRefines DEF vars, Phase
  <1>3. IInv /\ [Next]_vars => [Promise!Next]_(Promise!instVars)
    BY <1>2 DEF Promise!instVars
  <1> QED BY <1>1, <1>3, InductiveInvariant, PTL
          DEF Spec, ImplementsInstallation, Promise!Spec

-----------------------------------------------------------------------------
(* HelperEnds itself is about fairness.  What it rests on is not: the       *)
(* number of steps that a helper has before it at most.                     *)
StepsLeft == [idle |-> 0, ok |-> 1, failed |-> 1, retry |-> 2, restore |-> 3,
              moveNew |-> 4, moveOld |-> 5, clear |-> 6, copy |-> 7]
Left == 8 * (MaxAttempts - attempt) + StepsLeft[pc]

LEMMA LeftIsNat == TypeOK => Left \in Nat
  <1> SUFFICES ASSUME TypeOK PROVE Left \in Nat
    OBVIOUS
  <1>1. MaxAttempts - attempt \in Nat
    BY ReplaceAssumption DEF TypeOK
  <1>2. StepsLeft[pc] \in Nat
    BY DEF TypeOK, Steps, StepsLeft
  <1> QED BY <1>1, <1>2 DEF Left

(* Whatever fails, each step of the helper takes it nearer to its end: only *)
(* Retry goes back, and it has used up a round (self_update.rs:217-252).    *)
THEOREM HelperNeverLoops == Spec => [][HelperStep => Left' \in 0 .. Left - 1]_vars
  <1>0. IInv => Left \in Nat
    BY LeftIsNat DEF IInv
  <1>1. IInv /\ IInv' /\ Left \in Nat /\ (Left \in Nat)'
          => [HelperStep => Left' \in 0 .. Left - 1]_vars
    <2> SUFFICES ASSUME IInv, IInv', Left \in Nat, (Left \in Nat)', HelperStep
                 PROVE  Left' \in 0 .. Left - 1
      OBVIOUS
    <2>1. Left \in Nat /\ Left' \in Nat
      OBVIOUS
    <2>2. /\ attempt \in Nat /\ attempt' \in Nat /\ MaxAttempts \in Nat
          /\ StepsLeft[pc] \in Nat /\ StepsLeft[pc'] \in Nat
      <3>1. \A c \in Steps : StepsLeft[c] \in Nat
        BY DEF Steps, StepsLeft
      <3>2. /\ attempt \in 1 .. MaxAttempts /\ pc \in Steps
            /\ attempt' \in 1 .. MaxAttempts /\ pc' \in Steps
        BY DEF IInv, TypeOK
      <3> QED BY <3>1, <3>2, ReplaceAssumption
    <2>3. CASE attempt' = attempt /\ StepsLeft[pc'] < StepsLeft[pc]
      BY <2>1, <2>2, <2>3 DEF Left
    <2>4. CASE attempt' = attempt + 1 /\ pc = "retry" /\ pc' = "copy"
      <3>1. StepsLeft[pc] = 2 /\ StepsLeft[pc'] = 7
        BY <2>4 DEF StepsLeft
      <3> QED BY <2>1, <2>2, <2>4, <3>1 DEF Left
    <2>5. \/ attempt' = attempt /\ StepsLeft[pc'] < StepsLeft[pc]
          \/ attempt' = attempt + 1 /\ pc = "retry" /\ pc' = "copy"
      BY DEF HelperStep, CopyOk, CopyFails, ClearPrevious, MoveOldOk, MoveOldFails, MoveNewOk,
             MoveNewFails, Restore, RestoreFails, Retry, Report, StepsLeft
    <2> QED BY <2>3, <2>4, <2>5
  <1> QED BY <1>0, <1>1, InductiveInvariant, PTL DEF Spec
=============================================================================
