# A TLA+ model of QuietGuard

QuietGuard (`src/src/*.rs`) is a small Windows security checker: a window that
starts scans and database updates, a background watcher that reports changes of
persistence locations, a silent self-updater and a set of read-only scanners.
This directory holds TLA+ modules translated from its source, TLC
configurations that check them on small instances, and TLAPS proofs of the
properties that hold for every instance. All paths below are relative to the
directory above this one; `monitor.rs:89` stands for `src/src/monitor.rs:89`,
`README.md:42` (with a line) for `src/README.md:42`, `docs/` for `src/docs/`.

To use it: `tlc -config MCWatcher.cfg MCWatcher` checks a run, `tlapm
WatcherProofs.tla` a set of proofs. `PROJECT.json` relates every definition to
the lines it translates, every run to its properties, every property to a
mutation of the model that violates it, and every hazard to its properties.

## 1. The system

| part | state it keeps | operations | talks to |
|---|---|---|---|
| watcher (`monitor.rs`) | mutex `Local\QuietGuardWatcherMutex`, event `Local\QuietGuardWatcherStop`, `watcher.state`, the list of registry watches, the file stamps | `start_background`, `request_stop`, `is_running`, `run_watcher` | window and self-updater, through the named objects only; autostart entry |
| window (`main.rs`) | `UPDATE_RUNNING`, `WORK_RUNNING`, `UPDATE_RESULT`, `WORK_RESULT`, the message queue | `start_update_async`, `start_work_async`, `wnd_proc` | one worker thread per job; all the parts below |
| file installation (`updater.rs`, `intel.rs`, `keyed_intel.rs`, `regional_intel.rs`, `data_update.rs`) | live file, `.bak`, new file | `install_verified`, `replace_file`, `move_file` | every updater |
| executable replacement (`self_update.rs:213-253`) | `QuietGuard.exe`, `.new`, `.previous` | `replace_installed_exe` | update helper |
| program update (`self_update.rs`) | staged package | `check_and_schedule_update`, `apply_update` | watcher (stop, wait, start), helper process |
| database update (`data_update.rs`) | mutex of the update, fallback index | `try_update_guard`, `update_all` | rules and feeds |
| rule updater (`updater.rs`) | rules, manifest | `update_rules` | file installation |
| feeds (`intel.rs`, `regional_intel.rs`, `keyed_intel.rs`) | one sorted index and one timestamp per source, shared `last-update.txt` | refresh, lookup | file installation |
| automation (`automation.rs`) | Run values, scheduled tasks | query, toggle | registry, `schtasks` |
| baseline (`baseline.rs`) | baseline file and backup | save, compare | scanners |
| ClamAV bridge, Safe Browsing (`clam_bridge.rs`, `safe_browsing.rs`) | none | run a program with a time limit; one HTTPS request | external program, service |
| rules, scanners (`rules.rs`, `scanner*.rs`) | none | read, match, report | registry, files |

What makes these parts hard, and what makes them correct:

* **Watcher.** Any number of processes may start it at the same time. The
  named objects live as long as *somebody* has a handle, and every probe and
  every rejected process has one for a moment. There must be one watcher at
  most; a probe must not deny it; a stop must be obeyed although changes never
  cease; the stop of one watcher must not hit the next; kills come anywhere.
* **Registry watches.** A notification is good for one change, a deleted key
  makes its handle useless, missing keys are looked for only after a number of
  timeouts. No watched key may go deaf, and every change must be logged.
* **Window.** A worker stores its result, clears the flag and posts a message,
  in three steps, while the window may already start the next job. Two jobs
  must not overlap, and no result may be stranded or lost.
* **File installation.** A move is a rename or, failing that, a copy and a
  removal; any of them fails, and the process dies between any two. The last
  good content must survive, and Ok and Err must be true.
* **Executable replacement.** Up to 30 rounds of two renames and a rename back,
  each of which fails when the file is open. The user must keep a program.
* **Program update.** The updater stops a watcher, waits a bounded time and
  hands over to a helper that starts a new one through the same objects.
* **Rules.** The manifest and the rules are two files, downloaded and installed
  one after the other, perhaps of two releases. Success must mean that they
  agree, and a disagreement must heal.
* **Database update.** The window and the scheduled task update the same files;
  each source has an index and a stamp, and some share one. A stamp must not
  claim what was not done, and what failed must be tried again.
* **Index and lookup.** A scan reads an index while the update replaces it. A
  listed host must be reported, an unlisted one must not.
* **Automation.** A button queries what is registered and then changes it, in
  two steps, while another window or another copy of the program does so too.
* **Baseline.** What is compared is what scanners report, and they report
  excerpts. A save must not cost the baseline of before.
* **ClamAV.** The child's output is a pipe that is read only after it has ended,
  and asking for its end or killing it may fail.

## 2. The modules

```
SingleInstance   <-- refines --   Watcher  <-- EXTENDS, refines --  SelfUpdate
Installation     <-- refines --   InstallFile, ReplaceExe
GuiJobs   RegWatch   RulesUpdate   FeedIndex
ScanReports <- Baseline <-+
Automation  <-------------+-- EXTENDS --  WindowActions
ClamScan    <-------------+
XProofs EXTENDS X, TLAPS      MCX EXTENDS X (instances for TLC)
WatcherProofs EXTENDS SelfUpdate      WindowProofs EXTENDS GuiJobs, WindowActions
```

The parts meet through files and named objects, so one module stands for the
effect of another where they do: the outcomes of an installation in
`DbUpdate`, `RulesUpdate` and `FeedIndex` are those of `InstallFile` (done, moved
back, lost, a part of a file), and the jobs of `GuiJobs` are `DbUpdate`,
`RulesUpdate` and the parts of `WindowActions`.

### Watcher, SingleInstance (`monitor.rs:54-140`)

`SingleInstance` is the promise of a named mutex: there is a role that one
process takes when it is free and gives up; it never passes from one to another
directly. `Watcher` implements it and has one action per Windows call. A named object is the set
of its handles (`mutexHandles`, `stopHandles`): creating it when the set is
empty makes the process the watcher (`CreateMutex`, monitor.rs:86-89), any other
process leaves. The stop event keeps `signaled` while a handle exists, because
`CreateEventW` does not look at `ERROR_ALREADY_EXISTS`. `pc` names where each
process is, `cpc` where each client is in `is_running`, `start_background` or
`request_stop`. The loop is two actions here (a wait that returned something
other than the stop, and the rest of the round); its details are `RegWatch`.
`Kill` and `KillClient` close the handles, as Windows does. A write of
`watcher.state` may fail, which the code ignores (monitor.rs:238, 245): the file
keeps its content or is cut off (`FileAfterFailure`). The history variable
`uncleared` says that the last watcher to write `running=1` was killed or could not
write `running=0`; only then does `running=1` outlive it.
`ImplementsSingleInstance` maps the role's holder to the process between the creation and the closing of the mutex.

### RegWatch (`monitor.rs:95-235`)

The loop with its data: `watches` (the vector of watches), `armed`, `event`,
`dead` (the handle belongs to a deleted key), `ticks`, `current` (the watch that
was signaled and is not re-armed yet), `changed` (files whose stamp differs).
The registry is the environment: it changes, creates and deletes keys, and keys
in `Noisy` change without end. What is assumed of Windows:

* a notification that is registered signals its event at the next change or at
  the deletion of the key, and then has to be registered again;
* re-arming fails only when the key of the handle was deleted
  (`ERROR_KEY_DELETED`), and then always;
* a change that comes between the notification and the re-arming is not
  signaled (so it is not `pending`: it was never notified). The code accepts
  that; no property says otherwise.

### GuiJobs (`main.rs:160-270`)

The message loop is `gui`, its two flags `running`, the slots `slot`, the posted
messages `posted` and each worker `jpc`. `GetMessageW` returns posted messages
before input, so a click is taken only when nothing is posted; the handler
(`StartJob`) is a later step, and a message may arrive in between. The load of
the other flag and the exchange of the own one are one step, because only the
window's thread sets flags. `CloseWindow` ends the process with every worker.
`PostMessageW` may fail, which the code ignores (main.rs:191, 213): the job is
"unposted" then, and its result waits for the next message of its kind.

### InstallFile, Installation (`updater.rs:171-210` and its four copies)

`Installation` is what callers and readers see: a call has a result, Ok or Err;
while it is under way the live file may be anything; Ok means that the new content
is live, and an Err leaves what was there before, the new content or no file, but
never a part of one. Only a call that is killed may leave a part. `InstallFile`
implements it by `Phase`, and every behaviour does, also one with several kills and
failed rollbacks.

`fs` holds the three files, `pc` the file operation that is next and `stage` the
move it belongs to. The five copies of the algorithm in the source differ in the
extension of the backup only. `good`, `old`, `new` and `rollbackFailed` are
history variables. External: a copy that fails half-way removes its target
(`CopyFileExW`); a copy that is killed leaves a part.

### ReplaceExe (`self_update.rs:168-253`)

The three files, the round (`attempt`), `had` (`had_target`), and the history
variables `old` (what was installed when the helper began) and `stuck` (a
rename back failed). `fs::copy` may leave nothing, a part or the old file. It
implements `Installation` with `Partial <- Absent`: only renames touch the
installed path, so it never has a part of a program, not even after a kill.

### SelfUpdate (`self_update.rs:32-211`)

Extends `Watcher`: each step of the updater (`upc`) or the helper (`hpc`) that
touches a named object *is* the action of `Watcher` for that call, with the
updater as a client. The other clients are windows that probe the mutex all the
time (`Probe`, main.rs:299) and may keep their handle as long as they like. The
restart can fail at each of its calls: the helper does not find its own path and
returns (`HelperGivesUp`, self_update.rs:181-187), the target is gone or `spawn`
fails (`Restart`, 205-208), `start_background` fails (`StartAgain`), or a call of the
new watcher does (`WatcherFails`). The history variable `thwarted` records that, and
that the new watcher met a mutex which only a probe kept (`KeptByProbe`). Kills, and
clients that start or stop a watcher during the update, are in `Watcher` and left out
here, so that the properties are about the protocol of the update. The outcome of the
replacement is `target`: there is an executable or there is none; what the files
contain is `ReplaceExe`.

### DbUpdate (`data_update.rs`, `intel.rs:37-165`, `keyed_intel.rs:33-81`, `regional_intel.rs:15-48`, `clam_bridge.rs:66-92`)

`update_all` by several processes (`Procs`). `handles` and `role` are the mutex
of `try_update_guard`; `run` is the owner's progress through `Order`: the sources
of a directory and the steps at its end (`last-update.txt` of the public sources
if all went well, of the keyed ones if any did; the second path to ThreatFox).
A source has an index (`index`), a stamp (`own`) and perhaps the shared stamp of
its directory (`shared`). `Wanted` is the decision of the four files that decide
in the same way: forced, no index, or due. Downloading, parsing and the
installation may fail, a failed installation may lose the index, every step may
be the last one before a kill, and the clock may be set back once. The four
directories share no file, so a behaviour follows one of them, any of them.
`steady`, `fetched` and `owed` are history variables.

### RulesUpdate (`updater.rs:12-120`, `rules.rs:38-50`)

Releases are numbers, a hash is the number of the release it belongs to and
`Version` maps a release to its `rules_version`, which may be the same for two.
`rules` and `manifest` are the local files, `got` and `body` the downloads. The
environment publishes releases and damages the local rules; `Load` is a scan
that reads the first file there is, `LoadPassesOver` one that cannot read it and
goes on to the next place (rules.rs:42-46).

### FeedIndex (`intel.rs:129-149`, `167-217`, `237-256`, and its two copies)

`Indexes` are the files that `build_index` makes of a list: sorted, without
duplicates, with the hash of everything `DomainsFromLine` finds. A lookup goes
through the parents of a host and the feeds (`start`, `feed`) and searches the
opened file (`open`, `low`, `high`); each record that is read is a step. The
update moves an index away and puts another one there, whole or with its first
records only. Files are 17-byte records in the code and numbered records here;
`Hash` is a constant, and two domains may have the same one. `listed`, `calm`
and `seen` are history variables.

### Automation, Baseline, ScanReports, ClamScan, WindowActions

`Automation` (`automation.rs`) follows one of the four settings: a Run value or a
task. `Legible` are the paths that survive the way through the code page of the
console and the UTF-8 decoding of `decode_output`. The query and the change are two
steps, and nothing keeps windows apart: `seen` is what a window's last query found
("unseen" if it failed), `since` the windows that changed the entry after it. Both are
history variables, and `ToldIsTrue` states with them what a window may say and do
*although* others toggle meanwhile: it removes its own copy, or what one of `since`
registered in the gap; it registers a copy that was registered already only if its
query failed or was garbled; each status line is true but for the named effects of
its two queries.

`ScanReports` (`scanner.rs`, `scanner_extra.rs` to `scanner_extra8.rs`) has one
operator per scanner: which of its entries (lines, files, shortcuts) it lists,
counts or leaves out, and what it says when a question gets no answer. Whether an
entry is taken into account (`on`), is bad by the rules (`bad`), where it comes from
(`group`: a browser, profile, key or text), whether its query failed (`failed`) and how
it looks in a message (`shown`, and `also` for a part that a second message is about)
belong to the entry; a message is a tag and what is inserted, the numbers included
(background pages, services that start by themselves, extensions per browser). A
scanner's choice is `Select(s, K)`, the entries of `s` in the set `K` in their order:
what `SelectSeq` does, written as a recursive function over sets because the provers
know nothing of `SelectSeq`.

`Baseline` (`baseline.rs:9-128`) saves and compares what one of the scanners
reports, any of them. `Concerns(s)` are the entries that this scanner looks at: the
ones that are `on`, for some scanners marked ones, and for those that report a failure
the failed ones; a comparison may speak of a change only if they have changed
(`NoFalseAlarm`). Every cap of the code (4 to 35 entries) is an entry of `Cap`, of
which `CapAssumption` says only that it is a number other than 0; `ListRoom` has the
cap of each scanner that cuts its list, `Fits(s)` says that the findings in `s` are not
cut (key by key and text by text where the code cuts so), and `Able(s)` that a scanner
which gives up without its folder or file had it. A comparison of two texts that fit
must be exact (`NoMissedFinding`).

`ClamScan` (`clam_bridge.rs:14-63`, `274-293`) is the worker that polls for the end
of a child and the child that fills a pipe: with `--stdout` (clam_bridge.rs:31) the
lines about unreadable files go there, too. `try_wait` may fail, which returns with the
child left as it is (`TryWaitFails`, 279), and so may `kill()`, whose result is ignored
before `wait()` (`KillFails`, `Reap`, 287-288). External: clamscan ends with 1 if
something is infected, else with 2 if something could not be read, else with 0.

The three share no state; `WindowActions` follows one of them at a time in one
run (`main.rs:217-238`).

## 3. The runs

| run | bounds | shows |
|---|---|---|
| `MCWatcher.cfg` | 3 processes, 2 clients | one watcher, honest answers, a state file that is cleared if it can be written, no inherited stop, stops are obeyed, implements `SingleInstance` |
| `MCRegWatch.cfg` | 3 keys (one noisy), 1 file, recheck every 2 ticks, 3 edits, 1 failure | no deaf watch, created keys are added, changes of keys and files are logged |
| `MCRegWatchHeard.cfg` | as above, no failure | violated: a recreated key is heard of |
| `MCGuiJobs.cfg` | 4 jobs of either kind | jobs exclude each other, no result is stranded, overwritten only before its dispatch, results are shown and buttons work again if jobs end |
| `MCInstallFile.cfg` | 3 contents, 2 kills | Ok is true, the good content is kept and live at rest, the first harm loses nothing, implements `Installation` |
| `MCReplaceExe.cfg` | 3 images, 3 rounds | implements `Installation` without parts of files (so success is the staged image), failure leaves the installed one, a program is at hand, the helper ends |
| `MCSelfUpdate.cfg` | 2 watchers, 1 window that probes, 2 polls | stop not carried over, watcher stopped before the replacement, restarted if it was seen to end and nothing thwarted the restart |
| `MCDbUpdate.cfg` | 2 processes, 1 public feed, clock 0..1, periods of 1 | one update at a time, honest stamps, failures are retried, a lost index returns |
| `MCDbUpdateKeyed.cfg` | 1 process, 2 public feeds, clock 0..2 | violated: keyed sources are retried independently |
| `MCRulesUpdate.cfg` | 3 releases, 2 of one version | success is agreement, only verified rules, disagreements heal |
| `MCFeedIndex.cfg` | 2 feeds, 2 lists, 2 hosts, files of 0 to 4 records | a miss is an absence, hits are what is listed, each read halves the interval |
| `MCWindowActions.cfg` | 3 windows, 3 paths; 45 scanners, 16 machines, lists cut after 2; 3 files of which 2 are checked, a pipe of 1 line, 2 polls | told is true, comparison is true, a snapshot is kept, verdict is final, the scan returns |

Why the bounds are enough. Three processes are the watcher, the one that is
ending and one that loses against either; two clients are one with a handle to
each object. Three keys are one before, one at and one after the signaled index;
two ticks are the least with which a count can be reset too early or too late;
three edits create, delete and create a key again. Four jobs let a result be
overwritten, with its successor overwritten in turn, next to one job of the
other kind. Three contents tell "before", "new" and "older backup" apart; the
second kill meets what the first left behind. Three rounds are a first, a middle
and a last one. Two updaters are the owner and the one that is refused, or that
comes when the owner was killed; with periods of 1 and a clock of 0 and 1, a
source is fresh, due, or from the future. Three releases are the local one, the
one whose manifest is downloaded and the one whose rules are; two of them have
one version, because the code compares versions first. Four records are the
least with three levels of search and both parities of the interval; one of the
hosts has a hash that a listed domain has, too. Lists that are cut after two
entries see machines with none, one, two and more; the 16 machines differ in each
of the fields of an entry, with and without failures, in two groups. With three
candidates and two checked ones a file is left out; a pipe of one line fills up with
two. (This run has about 980 000 states and is the longest, one to two minutes.)

`MaxAttempts` (30), `MaxPolls` (20), `RecheckEvery` (6), `Limit` (24), `Timeout`
(900) and `Cap` occur in the code as bounds of the same comparisons;
`MaxKills`, `MaxEdits`, `MaxFailures`, `MaxHarms`, `MaxClock`, `MaxRelease`,
`MaxRecords`, `MaxFiles`, `CutOff` (where a write is cut off) and the sets of
processes, jobs, contents and machines bound the model alone. Only
`MCInstallFile` uses symmetry (contents are only compared), and it checks no
liveness.

`CHECK_DEADLOCK FALSE` stands where the system stops: the window is closed
(`MCGuiJobs`), there is no executable to update (`MCReplaceExe`), the one update
is over and nobody watches (`MCSelfUpdate`).

### Fairness

* `Watcher`: weak fairness of each running process (`RunWatcher`). Windows
  schedules it; nothing makes anyone start, stop, probe or kill.
* `RegWatch`: weak fairness of the loop only. Nothing is assumed about the
  environment, so changes may come faster than a wait times out; `Pauses`
  (the wait times out again and again) is a *condition* of the properties that
  need it, because the recheck counts timeouts (monitor.rs:114-116).
* `GuiJobs`: the message loop dispatches what is posted and returns from its
  handlers, and a worker whose work is done goes on to its last step. That the work
  itself ends is *not* assumed (`StoreResult` has no fairness): the scanners start
  programs with `cmd.output()`, which has no time limit (scanner.rs:32,
  scanner_extra6.rs:25, clam_bridge.rs:271), and a loop over a text may not end
  (scanner_extra6.rs:236). `JobsComeToAnEnd` therefore promises that finished results
  are shown, and that the buttons work again on the *condition* `WorkEnds`.
  Nobody has to click.
* `ReplaceExe`: the helper goes on; each of its waits is a bounded sleep.
* `SelfUpdate`: every process goes on, at any relative speed. A poll is a step,
  not 250 ms; that is why a watcher may outlast the polls. Windows need not probe,
  nor end a probe.
* `DbUpdate`: the owner and a refused process go on, and the scheduled task
  (every six hours, automation.rs:11) gets the mutex if it is free again and
  again. That failures and kills end is a condition of `LostIndexReturns`, and so
  is that the mutex gets free.
* `RulesUpdate`: a call goes on, to success or failure, and the task calls again.
  `Settled` (failures end, the server has one release) is a condition.
* `WindowActions`: the polling worker goes on. Nothing is assumed of clamscan,
  which may wait for ever; this is what `ScanReturns` is about. It has one exception:
  a `kill()` that failed, after which the worker waits as long as the child runs.

## 4. What disagrees with the documentation

Two are runs that TLC must find violated:

1. `CreatedKeyIsHeard`: a key that is deleted and created again is never heard
   of. `arm_watch` fails, monitor.rs:133 ignores it, the label stays in the list
   and `ensure_reg_watch` (monitor.rs:172) adds no other watch. README.md:42
   promises that a key created later is added. What does hold is
   `CreatedKeyIsAdded`.
2. `KeyedRetriedIndependently`: a keyed source without a stamp of its own takes
   its age from the shared `last-update.txt`, which the success of the other
   source writes (keyed_intel.rs:77, 237-242). docs/INTELLIGENCE.md:27 promises
   that the two do not delay each other. `FailedIsRetried` names the exception.

Others can be read off the models; the properties next to them say what holds:

3. A worker clears its flag before it posts its message (main.rs:190-191), so a
   second job can overwrite the first result. `OverwrittenOnlyBeforeDispatch`
   bounds the window.
4. A copied file whose original cannot be removed is reported as Err although it
   is live (updater.rs:199). docs/INTELLIGENCE.md:27 says that a failed refresh
   preserves the previous index. `GoodContentSafe` counts the new content as good.
5. After a kill between the two moves the only good copy is the backup, which the
   next installation removes first (updater.rs:178). docs/COVERAGE.md:64-65 call
   the replacement rollback-safe; `FirstHarmKeepsGood` covers the first harm.
6. After a failed rename back, the next round removes `.previous`, the only copy
   of the old program (self_update.rs:223). README.md:33 says it is retained.
   `ProgramAtHand` and `FailureLeavesInstalled` hold unless that rename fails.
7. When the old watcher outlasts the updater's wait, or a window's probe has the
   mutex at that moment, the restarted one takes it for another watcher and exits;
   and when the helper cannot start it, that is only logged (self_update.rs:205-208).
   README.md:34 says the watcher is restarted; `RestartedIfSeenToEnd` states when.
8. A clock that is set back keeps a source from being refreshed until it has
   caught up (intel.rs:160); only a lost index comes back in any case.
9. A path with other than ASCII letters is not legible, so a click never
   switches its entry off and the status calls it mismatched (automation.rs:141). A
   query that fails has the same effect once, and what another window registers
   between a window's query and its deletion is removed with it.
10. A child that fills the pipe is killed at the limit, and a scan that was all but
   finished is reported as a timeout (clam_bridge.rs:279). An exit code other than
   0, 1 and 2 is reported as a clean check if nothing was found (clam_bridge.rs:57),
   and files that could not be read are not mentioned if another one is infected,
   for clamscan's exit code is 1 then. `VerdictIsFinal` states what remains. An error
   of `try_wait` leaves the child running (clam_bridge.rs:279).
11. A scanner that cuts its list reports the same for different findings, and
   scanners that list their first entries in the order Windows gives them report
   a change when only the order has changed. A query that fails changes the report of
   the signatures, hosts, notifications and extensions of the same machine
   (scanner_extra6.rs:145), so a comparison then reports a change or misses one.
12. The state file keeps `running=1` after an orderly end when its last write fails
   (monitor.rs:245), and a lookup while an index is replaced may find a listed domain
   absent (intel.rs:141). Nothing reads the state file.

## 5. What is proved

For every set of processes, clients, contents, images, jobs, keys, feeds, hosts
and lists, for every number of kills, rounds and releases and for every length
of an index, from the `ASSUME`s of the modules (the sentinels differ from the
data, the bounds are numbers, the caps of the lists are numbers other than 0, a
machine is a sequence of entries, the names of the feeds differ from the names of
the other steps, the parents of hosts are domains):

| module | theorems |
|---|---|
| `WatcherProofs` | `TypeCorrect`, `SingleWatcher`, `HonestAnswers`, `StateFileCleared`, `StaleStop`, `StopIsNotLost`, `RefinesSingleInstance`; of `SelfUpdate`: `UpdateImplementsWatcher`, `SelfTypeCorrect`, `NoWatcherDuringReplacement`, `StopIsNotInherited` |
| `InstallFileProofs` | `TypeCorrect`, `SuccessMeansInstalled`, `NothingLost`, `LiveGoodAtRest`, `NothingGoodIsLost`, `FirstHarmIsSurvived`, `InstallationIsKept` |
| `WindowProofs` | of `GuiJobs`: `TypeCorrect`, `JobsExcludeEachOther`, `ResultsHaveMessages`, `OverwrittenInTheGap`, `RefusalsHaveAReason`; of `WindowActions`: `WinTypeCorrect`, `WindowsTellTheTruth`, `ComparisonsAreOfReports`, `ComparisonsAreTrue`, `BaselineSurvives`, `VerdictsAreFinal`, `WorkerGetsNearer`, `WorkerIsNeverStuck` |
| `ReplaceExeProofs` | `TypeCorrect`, `SuccessIsReal`, `FailureIsHarmless`, `ProgramIsKept`, `ReplacementIsInstallation`, `HelperNeverLoops` |
| `RegWatchProofs` | `TypeCorrect`, `WatchesAreUnique`, `WatchesHear` |
| `DbUpdateProofs` | `TypeCorrect`, `SingleUpdate`, `StampsAreHonest`, `FailuresAreRetried` |
| `RulesUpdateProofs` | `TypeCorrect`, `SuccessIsAgreement`, `RulesAreVerified` |
| `FeedIndexProofs` | `TypeCorrect`, `MissesAreAbsent`, `HitsAreExactly`, `SearchIsFast` |

All follow the same plan: an inductive invariant, its base, its step with one
case per action, and the property from it.

* **Watcher.** `AtMostOneWatcher` is not inductive: nothing in it keeps a second
  process from creating the mutex. `HandlesFollowControl` says of every process
  and client at which steps exactly it has a handle to which object;
  `StateFileHasWriter` that a `running=1` has a process that will correct it,
  unless one was killed or has failed to. `StaleStop` and the refinement are action properties
  from it: a step makes a process active or inactive, or leaves all of them, and
  with one active process at most the holder of the role is determined.
* **SelfUpdate.** Each of its steps is one of `Watcher` or leaves the variables of
  `Watcher` alone, so `UpdateImplementsWatcher` carries the invariant of `Watcher`
  over. What is added: `UpdaterCalls` and `UpdaterKnows` tie the updater's step to
  its step as a client of `Watcher`, `OneProcess` says that until the restart there
  is one watcher process at most, and one that was found is beyond the creation of
  its mutex; `NothingStopsBefore` that before the stop request no stop event is
  signaled and a mutex has its watcher; `GoneForGood` that a watcher which the
  updater saw end does not come back before the restart; `StopIsSpent` that a signaled stop event has no handle
  left when a watcher is about to create its own. `WatcherStoppedFirst` rests on
  `OneProcess`: that nobody is there now would not survive a process that is still
  starting.
* **InstallFile.** `NewIsOnItsWay` says where the new content is at each step,
  `GoodIsAtItsPlace` where the last good content is at each pair of step and
  stage, as long as nothing was harmed. Both are needed: the rollback decides by
  the presence of files, and only their contents at that step make it right.
  The refinement holds after harms as well, when the last good content may be lost,
  so it has an invariant of its own: `OldIsAtItsPlace`, where the content from
  before *this* call is at each step.
* **GuiJobs.** `FlagsCoverJobs`: a worker that has not cleared its flag has it
  set. A click looks at the flags and never at the threads, so without it
  `AtMostOneJob` is not inductive. `ResultsInSlots`: a result
  that is in a slot belongs to a worker that has its message before it, or has
  posted it, so that only a later job overwrites it, and only before its dispatch.
* **WindowActions.** `AutoIInv` says of each window, at each step between its query and
  its change or second query, how the entry relates to what it saw: it is that, or
  somebody in `since` has changed it. `ToldIsTrue` is an action property from it.
  `OneIsWhole` says which of the two baseline files is complete at each step
  of a save, before and after the first harm; `SnapshotKept` speaks of the worker at
  rest only and is not inductive. `AnswersCompareReports`: a complete file is what
  the scanner reported of one machine, never a mixture of two. `PipesAreExact`: the
  pipe holds what clamscan found in the files before the one it is at; a verdict
  reads it after the child has ended, so it holds all of it, and the exit code says
  what it has.
* **Baseline and ScanReports.** That a comparison compares the reports of the two
  machines is `ComparisonsAreOfReports`, from `AnswersCompareReports`.
  `ComparisonsAreTrue` adds what the reports of the 45 scanners show of the
  machines, whose texts may have any length. That needs induction over sequences,
  which is had without the induction theorems of the library: `LeastNumber` is the
  least element of a set of numbers, from `WFMin`, and `SetInduction` and
  `SeqInduction` are its consequences for the *set* of numbers or sequences with the
  property in question, so that nothing has an operator for a parameter.
  `SelectIs` says that `Select` is the function it is defined by; everything after
  it uses `SelectEmpty` and `SelectAppend` alone. For the one direction,
  `ReportsAreOfConcerns`: a report is a function of the entries that concern its
  scanner (`SelectTwice`: selecting from a selection selects by both), so reports
  that differ have a difference there. For the other, `ListsShow`: the lines of a
  report under the tag of its list show exactly the findings, if they fit;
  `SameReportSameFindings` follows. `UserCom` stops at its last finding, so what it
  leaves unread has none (`SelectPrefix`); machine COM cuts what it has collected,
  and the databases cut text by text what no text has told before (`AllInspected`,
  by induction over the hits), which is decided by cardinalities.
* **ReplaceExe.** `FreshIsStaged` (`.new` is complete when it is renamed),
  `OldInPlace` and `OldInPrevious` (where the old program is at each step,
  unless a rename back failed). `TargetOldOrNone` is what remains true after such a
  failure, and what the refinement needs: a round renames only an old program
  away that it has seen (`had`), and back only that one.
* **RegWatch.** `NeverDeaf` is inductive with the types and `OneWatchPerKey`: the
  loop re-arms one watch, so a key with two of them would have a deaf one. That
  the recheck adds every key once rests on a lemma about lists in the order of
  `Targets`.
* **DbUpdate.** `Exclusive`: the handles are those of the processes in
  `update_all`; a mutex that exists has one of them for an owner or none.
  `InFlight` and `Honest`: between an installation and its stamp the source was
  fetched just now. `RetryInv` is the long one: a source that is owed has no
  stamp younger than its period (`Lapsed`), through the steps at which the other
  sources and the end of the directory write the shared stamp; it needs that
  `all_ok` is false as long as a public source of this run is owed.
* **RulesUpdate.** `Checked`: between the checksum test and the installations the
  download has the hash of the manifest, and then so do the local rules.
  `RulesAreVerified` is about every step of an update that touches the local rules,
  also the failed installation and the kill in the middle of one.
* **FeedIndex.** `AllSorted` and `Bracket`: everything left of the interval is
  below the target, everything right of it above. `SeenIsRead` and
  `CalmIsComplete` relate the open file to what was listed, `DoneIsHit` says of
  every parent and feed behind the lookup that it was a hit if it was listed.

The type invariants are proved for every instance, so no run repeats them.

Every invariant and every action property of the passing runs is proved, and so
are the refinements (as far as safety goes, which is all the abstract
specifications state). Only model-checked are the liveness properties
(`StopIsObeyed`, `JobsComeToAnEnd`, `HelperEnds`, `RestartedIfSeenToEnd`,
`CreatedKeyIsAdded`, `EveryChangeIsLogged`, `LostIndexReturns`, `RulesHeal`,
`ScanReturns`; fairness is out of the prover's reach). Of four of them the safety
part is proved. `HelperNeverLoops` bounds the steps of the helper by a number that
each of them lowers; `WorkerGetsNearer` those of the worker that waits for clamscan,
one of which can always be taken (`WorkerIsNeverStuck`); `StopIsNotLost` those of a
watcher that is stopped, and no step of another process takes the stop back.
`WorkerIsNeverStuck` has the exception of the failed `kill()`, too.
`RefusalsHaveAReason` says that a running flag has a worker which has yet to clear
it. What is left to fairness is that the steps are taken.

## 6. Not modelled

* Safe Browsing: one request after an opt-in and the parsing of its answer. What
  can go wrong there are offsets into a text (safe_browsing.rs:166).
* The parsing of texts: output of Windows' tools, JSON, CSV, URLs, the rules
  file, version numbers. The models take its results (a domain or not, bad or
  not, a newer version or not) as data. `replace_case_insensitive_all`
  (scanner_extra6.rs:233) is of this kind, too.
* The release check, the download and the checksum test of the program update
  (one nondeterministic step of `SelfUpdate`), `copy_packaged_rules`, and two
  updaters of the program at once; a window or login that starts or stops a watcher
  during the replacement, and kills in the middle of an update (`Watcher` has both
  outside of an update).
* A `write_log` that fails (monitor.rs:231): `EveryChangeIsLogged` is about the call.
* The lookup of `regional_intel.rs` on its own: it stops at the first parent that
  is listed.
* The search for clamscan and the collection of its candidates; `recent_events`.
* Wording of messages, the network, PowerShell and `schtasks` themselves, drawing
  of the window, and the CI workflows.
