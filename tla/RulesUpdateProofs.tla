-------------------------- MODULE RulesUpdateProofs --------------------------
(***************************************************************************)
(* Proofs about RulesUpdate for every number of releases and every         *)
(* numbering of their rules.                                               *)
(***************************************************************************)
EXTENDS RulesUpdate, TLAPS

(* What the checks in front of an installation have established when it is *)
(* made: SuccessAgrees is about the end of a call only.                    *)
Checked ==
  /\ pc \in {"install rules", "install manifest"} => body = got
  /\ pc = "install manifest" => rules = got

IInv == TypeOK /\ Checked /\ SuccessAgrees

-----------------------------------------------------------------------------
LEMMA InitIInv == Init => IInv
  <1> SUFFICES ASSUME Init PROVE IInv
    OBVIOUS
  <1>1. 1 \in Releases
    BY RulesUpdateAssumption DEF Releases
  <1>2. TypeOK
    BY <1>1 DEF Init, TypeOK, Contents
  <1>3. Checked /\ SuccessAgrees
    BY DEF Init, Checked, SuccessAgrees
  <1> QED BY <1>2, <1>3 DEF IInv

(* A release on the server, and one that was before it, is a release. *)
LEMMA Published == TypeOK => 1 .. remote \subseteq Releases /\ None \notin 1 .. remote
  <1> SUFFICES ASSUME remote \in Releases
               PROVE  1 .. remote \subseteq Releases /\ None \notin 1 .. remote
    BY DEF TypeOK
  <1>1. MaxRelease \in Nat
    BY RulesUpdateAssumption
  <1> QED BY <1>1 DEF Releases, None

(* A call that ends without an installation disturbs nothing, unless it    *)
(* claims that the rules are up to date.                                   *)
LEMMA ReturnKeeps ==
  ASSUME IInv, NEW r \in {"none", "error", "blocked"}, Return(r),
         rules' \in Contents, manifest' \in Contents, UNCHANGED <<remote, packaged, loaded>>
  PROVE  IInv'
  <1>1. TypeOK'
    BY DEF IInv, TypeOK, Return, Contents
  <1>2. Checked' /\ SuccessAgrees'
    BY DEF Return, Checked, SuccessAgrees
  <1> QED BY <1>1, <1>2 DEF IInv

-----------------------------------------------------------------------------
LEMMA WorkIInv == IInv /\ Work => IInv'
  <1> SUFFICES ASSUME IInv, Work PROVE IInv'
    OBVIOUS
  <1> USE DEF IInv
  <1>1. CASE Call
    BY <1>1 DEF Call, TypeOK, Checked, SuccessAgrees, local
  <1>2. CASE GetManifest
    <2>1. TypeOK'
      BY <1>2, Published DEF GetManifest, TypeOK, local
    <2> QED BY <1>2, <2>1 DEF GetManifest, Checked, SuccessAgrees
  <1>3. CASE StopUpToDate
    <2>1. TypeOK'
      BY <1>3 DEF StopUpToDate, Return, TypeOK, Contents, local
    <2>2. SuccessAgrees'
      <3>1. rules \in Releases /\ manifest \in Releases /\ Version[manifest] = Version[rules]
        BY <1>3 DEF StopUpToDate, UpToDate, SameVersion, TypeOK, Contents, Releases, None
      <3> QED BY <1>3, <3>1 DEF StopUpToDate, SuccessAgrees, local
    <2> QED BY <1>3, <2>1, <2>2 DEF StopUpToDate, Return, Checked
  <1>4. CASE GetRules
    <2>1. TypeOK'
      BY <1>4, Published DEF GetRules, TypeOK, Contents, local, None, Damaged
    <2> QED BY <1>4, <2>1 DEF GetRules, Checked, SuccessAgrees
  <1>5. CASE Verify
    BY <1>5 DEF Verify, Verified, TypeOK, Checked, SuccessAgrees, local
  <1>6. CASE InstallRules
    BY <1>6 DEF InstallRules, TypeOK, Checked, SuccessAgrees
  <1>7. CASE InstallManifest
    <2>1. rules = got /\ got \in Releases
      BY <1>7 DEF InstallManifest, Checked, TypeOK
    <2>2. TypeOK'
      BY <1>7, <2>1 DEF InstallManifest, Return, TypeOK, Contents
    <2> QED BY <1>7, <2>1, <2>2 DEF InstallManifest, Return, Checked, SuccessAgrees
  <1> QED BY <1>1, <1>2, <1>3, <1>4, <1>5, <1>6, <1>7 DEF Work

LEMMA FailureIInv == IInv /\ (Failure \/ Kill) => IInv'
  <1> SUFFICES ASSUME IInv, Failure \/ Kill PROVE IInv'
    OBVIOUS
  <1>1. \E r \in {"none", "error", "blocked"} : Return(r)
    BY DEF Failure, Kill, NoManifest, NoRules, Block, RulesNotInstalled, ManifestNotInstalled
  <1>2. rules' \in Contents /\ manifest' \in Contents /\ UNCHANGED <<remote, packaged, loaded>>
    BY DEF IInv, TypeOK, Contents, Failure, Kill, NoManifest, NoRules, Block,
           RulesNotInstalled, ManifestNotInstalled, local
  <1> QED BY <1>1, <1>2, ReturnKeeps

LEMMA OthersIInv == IInv /\ (Publish \/ Damage \/ Load \/ LoadPassesOver) => IInv'
  <1> SUFFICES ASSUME IInv, Publish \/ Damage \/ Load \/ LoadPassesOver PROVE IInv'
    OBVIOUS
  <1>1. CASE Publish
    <2>1. remote' \in Releases
      <3>1. MaxRelease \in Nat
        BY RulesUpdateAssumption
      <3>2. remote \in Releases /\ remote < MaxRelease /\ remote' = remote + 1
        BY <1>1 DEF IInv, TypeOK, Publish
      <3> QED BY <3>1, <3>2 DEF Releases
    <2> QED BY <1>1, <2>1 DEF IInv, Publish, TypeOK, Checked, SuccessAgrees, local
  <1>2. CASE Damage
    BY <1>2 DEF IInv, Damage, TypeOK, Checked, SuccessAgrees, Contents
  <1>3. CASE Load \/ LoadPassesOver
    <2>1. loaded' \in Contents
      <3>1. 1 \in Contents
        BY RulesUpdateAssumption DEF Contents, Releases
      <3> QED BY <1>3, <3>1 DEF IInv, Load, LoadPassesOver, TypeOK, Contents
    <2> QED BY <1>3, <2>1 DEF IInv, Load, LoadPassesOver, TypeOK, Checked, SuccessAgrees, local
  <1> QED BY <1>1, <1>2, <1>3

LEMMA NextIInv == IInv /\ [Next]_vars => IInv'
  <1> SUFFICES ASSUME IInv, [Next]_vars PROVE IInv'
    OBVIOUS
  <1>1. CASE UNCHANGED vars
    BY <1>1 DEF vars, local, IInv, TypeOK, Checked, SuccessAgrees
  <1> QED BY <1>1, WorkIInv, FailureIInv, OthersIInv DEF Next

-----------------------------------------------------------------------------
LEMMA Invariance == Spec => []IInv
  BY InitIInv, NextIInv, PTL DEF Spec

(* The variables keep their types; in particular no step works with a      *)
(* manifest or rules that were not downloaded (updater.rs:25-90).          *)
THEOREM TypeCorrect == Spec => []TypeOK
  <1>1. IInv => TypeOK
    BY DEF IInv
  <1> QED BY <1>1, Invariance, PTL

(* update_rules says that the rules are up to date or updated only if the  *)
(* local rules and version.json are of one version (updater.rs:71-120).    *)
THEOREM SuccessIsAgreement == Spec => []SuccessAgrees
  <1>1. IInv => SuccessAgrees
    BY DEF IInv
  <1> QED BY <1>1, Invariance, PTL

(* Whatever was downloaded, damaged or of another release: an update        *)
(* changes the local rules, completely or in part, only with a body that   *)
(* has the hash its manifest names (updater.rs:90-108).                    *)
THEOREM RulesAreVerified == Spec => OnlyVerifiedRules
  <1>1. IInv /\ [Next]_vars => [pc # "idle" /\ rules' # rules => body = got]_vars
    <2> SUFFICES ASSUME IInv, Next, pc # "idle", rules' # rules PROVE body = got
      BY DEF vars, local
    <2>1. pc = "install rules"
      BY DEF Next, Work, Failure, Call, GetManifest, StopUpToDate, GetRules, Verify, InstallRules,
             InstallManifest, NoManifest, NoRules, Block, RulesNotInstalled,
             ManifestNotInstalled, Kill, Damage, Publish, Load, LoadPassesOver, local
    <2> QED BY <2>1 DEF IInv, Checked
  <1> QED BY <1>1, Invariance, PTL DEF Spec, OnlyVerifiedRules
=============================================================================
