---------------------------- MODULE WindowActions ----------------------------
(***************************************************************************)
(* Three of the things a window of QuietGuard does for its user that share *)
(* no state with each other: the buttons that switch the automatic starts  *)
(* (Automation), the ones that save and compare a baseline of what the     *)
(* scanners report (Baseline, ScanReports), and the check with ClamAV at   *)
(* the end of a scan (ClamScan).  As none of them reads what another one   *)
(* writes, one of them is followed, whichever it is.                       *)
(***************************************************************************)
EXTENDS Automation, Baseline, ClamScan

VARIABLE
  part        \* "automation", "baseline" or "clam"

winVars == <<part, autoVars, baseVars, clamVars>>

WinTypeOK ==
  /\ part \in {"automation", "baseline", "clam"}
  /\ AutoTypeOK
  /\ BaseTypeOK
  /\ ClamTypeOK

(* The parts that are not followed stay in one of their initial states. *)
WinInit ==
  /\ part \in {"automation", "baseline", "clam"}
  /\ AutoInit /\ (part # "automation" => setting = "value" /\ entry = "none")
  /\ BaseInit /\ (part # "baseline" => scanner = "hosts" /\ machine = <<>> /\ file.state = "none")
  /\ ClamInit

AutomationStep == part = "automation" /\ AutoNext /\ UNCHANGED <<part, baseVars, clamVars>>
BaselineStep == part = "baseline" /\ BaseNext /\ UNCHANGED <<part, autoVars, clamVars>>
ClamStep == part = "clam" /\ ClamNext /\ UNCHANGED <<part, autoVars, baseVars>>

WinNext == AutomationStep \/ BaselineStep \/ ClamStep

(* The worker goes on, whatever the child does. *)
WinFairness == WF_winVars(ClamWorker /\ part = "clam" /\ UNCHANGED <<part, autoVars, baseVars>>)

WinSpec == WinInit /\ [][WinNext]_winVars /\ WinFairness

-----------------------------------------------------------------------------
(* What a window tells of a setting is what it did and what the system has, *)
(* also while other windows, of the same copy or of others, switch the same *)
(* setting and while queries and changes fail: no click removes what        *)
(* another copy registered, except in the gap between its own query and its *)
(* deletion (automation.rs:14-146).                                         *)
ToldIsTrue == [][ToldOfToggle /\ ToldOfStatus]_winVars

(* A baseline comparison neither reports as new what was there, nor passes  *)
(* over a finding that is new, under what the code's caps on the lists let  *)
(* it promise (baseline.rs:56-92).                                          *)
ComparisonIsTrue == NoFalseAlarm /\ NoMissedFinding

(* A clean verdict rests on all the files that were scanned, found on those *)
(* that could be read, and no clamscan is left running unless the question  *)
(* whether it has ended failed (clam_bridge.rs:45-63, 274-293).             *)
VerdictIsFinal == VerdictIsComplete /\ NoChildLeft
=============================================================================
