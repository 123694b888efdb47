# metapathology in TLA+

metapathology watches Python's import system from inside a process: it puts
instrumented lists in the place of `sys.meta_path`, `sys.path_hooks` and
`sys.path`, wraps the `find_spec` of the finders, listens to `import` audit
events, and reports what it saw.  It must do so while other threads import,
other tools change the same lists and finders, and it must be able to take all
of it back.  That is what these modules are about: shared objects without a
lock, foreign code in the middle of our own, and ownership that has to be given
back exactly once.

Sources are named relative to `src/metapathology/` of the repository.

## The system

| Part | Code | State | Operations | Talks to | What is hard |
| --- | --- | --- | --- | --- | --- |
| Monitor | `_monitor.py` | `_enabled`, flags per mechanism, leases of the three lists, `_transition_generation`, `_reinstall_lock`, events | `_install`, `_uninstall`, `_audit`, `_recover_*`, `_on_*_change`, `_snapshot` | everything below | the lists have no lock; recovery and preparation run foreign code |
| Finder attribution | `_finder_attribution.py` | `_patches`, `_skipped`, `_record_lock` | `instrument`, `uninstall`, `observe_api` | called by the monitor; writes `finder.__dict__` | claims by several threads, late commits, foreign shadows |
| Instrumented lists | `_instrumented_list.py` | the list | every `list` operation | calls back `_on_*_change` | operations that raise half way |
| Importer cache observer | `_importer_cache.py` | last snapshot, `_enabled`, `_observation_active` | `enable`, `observe`, `uninstall` | `sys.path_importer_cache` | single flight across a reinstallation, interrupts, coalescing |
| Detailed capture | `_detailed_capture.py` | leases on `__import__` and the profilers, per-thread stacks of searches | `enable_*`, `uninstall`, the profiler, the wrappers | `builtins.__import__`, `sys.setprofile`, `threading.setprofile` | other tools on the same hooks; call and return events that do not pair |
| Branch exploration | `_branch_exploration.py` | the flag `active` and the path contexts of a thread | five starting points, three loops | finders and hooks | candidates that import, raise or interrupt |
| Displaced finder check | `_displaced_finder_check.py` | none | bounded probing | finders | foreign code, a cap |
| Records | `_records.py`, `_record.py`, `_spec.py`, `_module_metadata.py`, `_monitor_model.py` | plain data | construction | | |
| Runtime | `_runtime.py`, `__init__.py` | `_active_capture`, `_runtime_transition`, `_monitoring_region_*` | `install`, `uninstall`, `monitoring`, `report` | one `Monitor` | regions that nest, overlap and fail |
| Attachment controller | `_attachment.py`, `_attachment_process.py` | session directory | `attach`, `stop`, `stop --discard` | `sys.remote_exec`, files | crashes, timeouts, reuse of process ids |
| Attachment agent | `_attachment_agent.py` | `_REMOTE_ACTIVE` in the target | `start`, `stop`, exit handler | runtime, files | acknowledges through files only |
| Attachment protocol | `_attachment_protocol.py` | `manifest.json`, both status files, `packages/`, `leases/` | atomic writes, reads | | archives shared by all sessions |
| Reports | `_report.py`, `_report_capture.py`, `_report_analysis.py` | a snapshot | joins and classification | monitor | consistency of one cutoff |
| Rendering | `_report_text.py`, `_report_text_context.py`, `_report_json.py`, `_report_schema.py`, `_report_model.py`, `_report_events.py` | none | formatting | | |
| Configuration | `_config.py` | merged settings | `resolve` | command line, environment, file | precedence |
| Command line | `__main__.py` | none | argument parsing, `runpy` | runtime, attachment | |
| Site bootstrap | `site_bootstrap.py` | one start-up file | `install`, `status`, `remove` | file system | other writers of that file, crashes |
| Frozen and early bootstraps | `frozen_bootstrap.py`, `_early_bootstrap.py`, `_frozen_bootstrap.py` | none | start-up code | runtime | |

What makes each correct:

* *Finder attribution*: uninstall gives every finder back as the program had
  it; wrappers do not nest; a foreign shadow survives; no claim is abandoned.
* *Monitor*: off means ordinary lists; the program's list contents and
  assignments are never undone; one thread at a time works on the lists; a
  replaced list is wrapped again; no lock is held where it can deadlock.
* *Runtime*: monitoring is on inside every region, a region takes back exactly
  what it installed, and nobody waits for ever.
* *Attachment*: an active monitor can always be reached and stopped; the files
  say what is so; a report is delivered once it is complete and before it is
  removed, and it is the right one.
* *Package archives*: none goes away while a session or a process needs it.
* *Importer cache, lists, log*: the records lead from what was to what is; one
  snapshot at a time; a report is not older than the question.
* *Detailed capture*: what a record says belongs to the import it names; an
  import is recorded once; other tools' hooks stay.
* *Branch exploration*: every later sibling once and in order, never an
  exploration inside another, and no flag left up.
* *Site bootstrap*: another tool's file stays, a command does what it says, and
  a command that fails takes back what it wrote.

## Modules

| Module | Contents |
| --- | --- |
| `FinderShadowing` | `instrument()` and `uninstall()` of finder attribution, by any number of threads |
| `FinderShadowingProofs` | its theorems |
| `MonitorLifecycle` | installation, uninstallation and recovery over the three import lists |
| `MonitorLifecycleProofs` | its theorems |
| `MonitoringRegions` | `install`, `uninstall`, `monitoring()` and their two conditions |
| `MonitoringRegionsProofs` | its theorems, with the refinement of `InstallationLease` |
| `InstallationLease` | what `monitoring()` promises, the abstract specification `MonitoringRegions` implements |
| `EvidenceLog` | importer-cache observation, path-hook mutations and reports |
| `EvidenceLogProofs` | its theorems |
| `ImportProfiling` | one profiled thread: events, shadow stacks, search identities |
| `CaptureLeases` | `builtins.__import__` and the profilers, shared with other tools |
| `BranchExploration` | the candidates an import skipped, called one by one |
| `Attachment` | controllers, the files and the agent in the target process |
| `AttachmentProofs` | its theorems |
| `PackageCache` | archives and leases, over several process ids and versions |
| `SiteBootstrap` | the start-up file |
| `SiteBootstrapProofs` | its theorem |
| `MCDetailedCapture`, `MCFileCommands` | compose the parts that share a run, see below |
| `DetailedCaptureProofs`, `FileCommandsProofs` | theorems about the parts, in these compositions |
| other `MC...` | symmetry sets and values for the runs |

The models of one process fit together by what each leaves out.
`MonitoringRegions` sees a monitor as the flag `enabled` and as a call that
returns or raises; `MonitorLifecycle` is what happens inside that call, with
the access to finders as a step that may import or raise; `FinderShadowing` is
what happens inside that step.  `EvidenceLog` keeps of the same calls the order
in which they switch the path hooks and the importer cache on and off,
`CaptureLeases` the order in which they take and give back process-wide hooks,
and `ImportProfiling` what a thread sees of them.  `Attachment` sees the runtime
of the target as a flag and one package; `PackageCache` keeps of a session only
what it does to the archives, and has several of them at once.

In every module an operator whose name starts with `M` is a plausible mistake
in the definition that follows it; nothing uses it.  It documents what the
property paired with it in PROJECT.json is able to notice.

### FinderShadowing

One step is a critical section of `_record_lock` or one access to something
that lock does not protect: `_enabled`, the finder's instance dictionary, the
copy of `_patches`.  A thread's `pc` names the place in `instrument()` it has
reached.  `Claim`, `Inspect`, `ShadowState`, `Prepare`, `Assign`, `Verify`,
`PutBack`, `Skip`, `CommitRead`, `CommitStore`, `Undo` follow `_claim`,
`_find_spec`, `_instance_shadow_state`, `_prepare_claim`, `_install_shadow`,
`_skip` and `_commit_shadow`; the `Uninstall...` steps follow
`_Monitor._uninstall` and `_FinderAttribution.uninstall`.  A wrapper is the
number of its creation.  `ForeignShadow` is another tool.  Looking `find_spec` up,
reading the instance dictionary and assigning are foreign code, and each may raise,
before or after its effect.  What `instrument()` catches leads to `Skip`; whatever
it does not catch (a BaseException, or an error of a `__dict__` of its own kind)
ends the attempt where it is (`Interrupt`).  The history variables `foreign`,
`raced`, `orphaned` and `stuck` say which finders another tool shadowed, which
were in an attempt that met an uninstall or a shadow in the middle, which
claims a refused `_prepare_claim` or an interrupted attempt left behind, and which
finders got a wrapper that no patch remembers, because their `__setattr__` stored
it and then raised, or that restoration does not touch, because their `__dict__` is
no plain dict.  The safety properties are stated outside `raced` and `stuck`:
inside, they fail, see *Disagreements*.

### MonitorLifecycle

An import list is an object with contents; `live[k]` is what `sys.<k>` refers
to, `wrapped[k]` the monitor's lease, `draft[t]` a copy a thread has not
published.  Kind 1 is `sys.meta_path`.  `lock` is `_reinstall_lock`,
`transition` is `_transition_generation`.  An installation reserves the
transition under the lock and works outside it; an uninstallation and a
recovery hold the lock.  `InstallBegin` also contains the test of
`_runtime.install` against the settings of the last installation, which is what
lets a second call through.  The program (`Append`, `Reassign`, `Save`,
`PutBack`) acts at any moment, and finders may import a module
(`moduleLock`).  List objects that nothing refers to are collected, which keeps
the model finite; five of a kind are enough, which the proof shows: only the thread
at work has a copy (`OneDraft`), and beside it, the live, the held and the kept list
a fifth is free (`FiveAreEnough`).

### MonitoringRegions and InstallationLease

An actor is one `with monitoring()` statement or a caller of `install()` and
`uninstall()`.  `runtime` is `_runtime_transition`; `count`, `owns` and
`changing` are `_monitoring_region_count`, `_monitoring_regions_own_installation`
and `_monitoring_region_transition`.  `install()` and `uninstall()` may raise at
any of their steps.  `disturbed` records that a caller switched monitoring on
or off, or that an `uninstall()` was interrupted, while regions relied on it.
`InstallationLease` has holders and the flag: the first lease switches
monitoring on, the last one restores what was before.  A region maps to a
holder (`Holds`) from the moment it counts, or has switched the flag, to the
moment it has given that back.

### Attachment

The session directory is the variables `directory`, `manifest`, `scripts`,
`status` (target), `control` (controller) and `artifact`; a step writes one
file.  The target is `birth`, `alive`, `slot` (the one pending script of
`sys.remote_exec`), `agent` and `monitoring`; a script runs as one step.
`Reuse` gives the process id to another process.  A command is a `pc` with its
locals; `Crash` kills it, `Timeout` ends its wait.  `seen` is the manifest a
command has read, which is what its later writes are about; a command that ends
forgets its locals.  Any number of commands may run, and any of them may be
`attach`, which only `mkdir` keeps apart.  The handler around all of `attach` looks
whether the directory is there, then whether a manifest is, and then removes the
directory, in three steps (`FindDirectory`, `FindNoManifest`, `RemoveAgain`) and
whoever's directory it is by then; after a scheduling that failed, this is the second
removal.  An orderly exit renders the report and writes the status (`RecoverAtExit`)
while the process lives on, still monitored; its death is `Die`.  `raced` records that
a `stop` began while another command was at work, or that the handler removed what
was not its own: nothing in the code keeps these apart, and what fails then is under
*Disagreements*.

### EvidenceLog

One step is a critical section of `_record_lock`, the copy of the cache or one
list operation.  `Observe`, `Snapshot`, `SnapshotFails`, `SnapshotInterrupted`
and `Publish` are the parts of `observe()`, which install (`EnableCache`),
uninstall (`UninstallBegin`), reports (`ReportBegin`) and both path-hook
callbacks (`BeforeMutation`, `Record`) call; `next` is where they go on.  Contents
of the cache are model values and `moment` counts its changes.  Hooks are
interchangeable, so a list is its length and a mutation record the difference it
states; `append` stands for the operations with one step between the callbacks,
`extend` and `clear` have two, and `Landed` is what an iterable yielded before it
ended or raised.  `took` is the local `before`, `added` or `removed`; `Owed` is what a
thread in the middle of an operation has still to record.  The history
variables name what the properties except: `straddled` (an `uninstall()` ended
under a running snapshot), `cutOff` (a BaseException ended a snapshot), `blurred`
(a mutation of the live list fell between the steps of another one's, or a record
came came from an older list).  Left out: the fingerprint and `_dirty`, which the code
writes and never reads; a list operation made inside one of the monitor's own
callbacks, which their guard skips (`_guard_monitor_callback`); and the recovery of a
`path_hooks` list the program replaced, which is in `MonitorLifecycle`.

### ImportProfiling

`frames` is the thread's real stack of the three functions the profiler knows;
`searches`, `calls` and `contexts` are the three stacks the monitor keeps from call and
return events, some of which it ignores (`Odd` names, a PathFinder call for another
module).  `auditFirst` is the interpreter's order of the audit event and
`_find_and_load`, which differs from CPython 3.15 on.  An import may be refused by
another audit hook after its audit event (`ImportRefused`) or made inside the profiler's
own callback (`ImportInCallback`): no call event follows, and its search is left for
whoever comes next (`stale`).  A thread without the profiler leaves searches too
(`level` "results").  An interrupt that leaves the callback makes CPython take the
profiler off the thread (`CallbackRaises`, `level` "lost").  `owner` remembers which
import a search identity was drawn for; `Shadows(s, stack, places)` says that `s` has the
innermost of these places of a stack, in order and without a gap.  `skewed` records the
seven ways in which the stacks or the searches do leave the real ones, listed in the
module; the run does not go on from there (`NotSkewed`), because nothing is claimed
afterwards.  A stale search alone is no such way: the next import of another name throws
it away.  Left out: another audit hook that imports inside the audit event of an import.

### CaptureLeases

`chain` is `builtins.__import__` and what it delegates to, by the installation
that made each wrapper.  `TestProfilers`, `ReadProfilers`, `SetThreadProfile` and
`SetSysProfile` are the steps of `enable_import_results`; `TestSysProfile`,
`RestoreSysProfile`, `TestThreadProfile` and `RestoreThreadProfile` those of
`_uninstall_import_results`, whose comparison is `StillOurs`.  A thread starts with the
threading profiler; a tool sets a profiler of one thread, of new threads or of all.
`buried`, `strayed` and `raced` say that uninstall had to leave a wrapper under a
tool's, or our profiler in another thread, and that a profiler came or went between a
test and the set it allows (`Window`), at installation or at uninstallation.

### BranchExploration

`loops` is the stack of running `_run_*` loops of a thread, each with the
candidates it has left; `call` is the candidate being called, during which an
import may reach a starting point again (`Start`).  `phase` has the two flags
that `enabled` is the conjunction of.  `log` is what the outermost exploration
recorded.

### PackageCache

A command's life is its pruning, `Reserve`, `Stage`, `WriteManifest`, `StartExec`, the
wait, the lease (`Acknowledge`), and for a stop the request, delivery and `Remove`, which
prunes again; `GiveUp` ends it anywhere, as a timeout or a crash does.  A prune reads the
manifests one by one (`ReadManifest`), then the leases, of which it removes those of dead
processes (`ReadLease`), then lists the archives (`ListArchives`) and unlinks them one by
one; other commands and targets come in between.  An attach that raises after its
reservation (`Raises`, `StartExecFails`) goes through the handler of `Attachment`.  A
target loads the archive its start script names, and keeps the modules it has; an orderly
exit writes the last status (`RecoverAtExit`) and goes on importing until it dies
(`Exit`).  `raced` records what does take an archive away or can: a manifest written
while a prune that did not see it is under way, a session removed by a command that read
an earlier one or by the handler of another attach, a start script that reaches the next
process of a reused id, a lease written from another session's manifest, and an orderly
exit before any command has acknowledged the session.  The run stops there (`NotRaced`).
`UnlinkFails` is two prunes at once: the second meets a file that is gone.

### SiteBootstrap

A file is what `_inspect` makes of it, and who wrote it.  A command inspects and
then acts by path; `Put` notes in `disturbed` that somebody else changed the path
under a command.  `Crash` and `WriteFails` leave any part of the text.  The handler
unlinks what was written (`Undo`), unless that fails too, which it ignores, or is
interrupted (`UndoFails`); an interrupt between `os.open` and the `try` does not reach it
(`Interrupt`).  `gaveUp` has the commands that ended in one of these ways or died.

### The composed runs

`MCDetailedCapture` puts `ImportProfiling`, `CaptureLeases` and
`BranchExploration` side by side, `MCFileCommands` puts `PackageCache` and
`SiteBootstrap`: the parts share no state that a property tells apart, so a
behaviour is chosen to be one of them (`part`), and the others stand still.

## Runs

| Run | Bounds | What it shows |
| --- | --- | --- |
| `finder_shadowing` | 3 threads, 1 finder, 2 installations, foreign code that raises | `RestoredAfterUninstall`, `NoAbandonedClaim`, `OneAttemptPerFinder` |
| `finder_shadowing_live` | 2 threads, a cooperative and an opaque finder, 1 installation | the inductive invariant `RestoreInv`, `EventuallyRestored` |
| `monitor_lifecycle` | 2 threads, 2 lists, 1 item, 2 installations, 2 changes by the program, importing finders | the inductive invariant `LifecycleInv`, `OrdinaryWhenOff`, `OneWorker`, `ContentsKept`, `RecoveryHasCause`, `ProgramListsStay` |
| `monitor_lifecycle_live` | 2 threads, 1 list, 2 installations, 3 changes, lists put back | `EventuallyWrapped` |
| `monitoring_regions` | 3 regions, 2 callers, 4 calls, interrupts | the inductive invariant `RegionInv`, `MonitoredInside`, `NothingLeftBehind`, `EarlierInstallationStays` |
| `monitoring_regions_lease` | 4 regions | `LeaseSpec` (refinement), `EventuallyEntered` |
| `attachment` | 2 commands, 2 processes with the id, 2 sessions | the inductive invariant `AttachmentInv`, reachability, agreement of files and target, delivery, clearing |
| `evidence_log` | 2 threads, 2 contents, 2 changes of the cache, 2 installations, 2 mutations, interrupts | `ObserverInv` (inductive: types, single flight, the balance of the path-hook records), `LogExplainsCache`, `ReportIsCurrent`, `HooksAccounted` |
| `detailed_capture` | 3 imports, 4 frames, 2 names and an odd one, 6 steps of (un)install; 2 threads, 2 installations, 3 steps of the tool; 3 candidates of each kind, 3 starts, 8 steps of (un)install | the inductive invariants `ProfilingInv`, `LeaseInv` and `ExploreInv` (these in `OneRecordPerImport` and `OneExploration`), `ShadowsAreTheStack`, `RecordsJoin`, `OneRecordPerImport`, `ProfilersOfOthers`, `OneExploration`, `ExploresEveryLaterSibling` |
| `file_commands` | 2 commands, 1 process id with 2 processes, 2 versions; 2 files of others | the inductive invariants `CacheInv` and `BootstrapInv` (in `ArchivesStay` and `SaysWhatIsSo`), `SaysWhatIsSo`, `StuckWasGivenUp`, `ForeignFileStays` |
| `finder_shadowing_race` | 2 threads, 1 finder | refutes `NoWrapperSurvives` |
| `monitor_lifecycle_deadlock` | 2 threads, 1 list, 1 change | refutes `NoLockCycle` |

Why the bounds suffice.  A race on one finder needs an owner, a rival and an
uninstaller, and a second installation for what survives into it; finders do not
interact, so one is enough, and the second of the liveness run is there for its kind.
Two lists are needed for a half-done installation, and a second change for one that
lands during the recovery of the first.  Three regions give every order of first, nested
and last with one that fails; four calls let each caller switch twice.  Two processes
are the smallest case of a stale id, two commands of an attach beside another one or
beside a stop, and two sessions of one whose start script goes astray and one it meets.
After a race the run stops (`NotRaced`): `raced` never falls again and every property
excepts it, the temporal one by ending in it, so nothing that could be refuted is cut
off.  A coalesced, a late and an interrupted
snapshot need two threads, and an old content that returns two changes; what an
installation leaves to the next shows with two.  Six steps of (un)install are one
installation that gets as far as the profiler, with its end, and another, or two of
which the second gets as far.  Three imports nest one in another with
one more of the same name; three candidates have a first, a middle and a last.  Two
versions are enough for an archive nobody else needs, two commands for every race
between them.  Symmetry is used for threads and actors, never in a run with a liveness
property.

`CHECK_DEADLOCK FALSE` is set where the program may leave monitoring alone and
the bounds run out; the waiting of threads for each other, which is the
deadlock that matters, is `NoLockCycle` (the only one: see Proofs), and waiting for ever in
`MonitoringRegions` is `EventuallyEntered`.

Fairness.  A thread inside the monitor keeps running, because the operating
system schedules it and no step before the next lock waits on anything
(`FinderShadowing`, `MonitorLifecycle`); nobody is obliged to install, uninstall
or change a list.  `EventuallyWrapped` also needs that imports go on and that
foreign code is not interrupted every time (strong fairness of `Inspect`).  In
`MonitoringRegions` the body of a region may run for ever.  In `Attachment` a
command goes on, the target comes to run a scheduled script, and the user
repeats `stop` and `stop --discard` when they fail; scheduling and delivery do
not both fail for ever, and a wait that finds its answer is not cut short every time
(the loops look before they sleep); `FairSpec` asks this of each of the two pairs, not of
each action.

## Proofs

Every theorem is about the specification the runs check, for every value of the
constants that satisfies the assumptions named in the module: sets of threads,
finders or actors of any size, and every bound any natural number.  The other
assumptions only keep special values apart (`Nobody` is no thread, `None` no
version, no content and no snapshot, `Nothing` no search, a tool is no
installation), bound what is there from below (a process for every id, an
installation, a candidate) or say what a set is made of (opaque finders are
finders, odd names are names, requests ask for lists there are).  There are one
to three import lists.  No theorem but one has a hypothesis about behaviours.

| Module | Theorems |
| --- | --- |
| `FinderShadowingProofs` | `TypeCorrect`, `RestoreInvariant`; `RestoredAfterUninstall` (`Restoration`), `OneAttemptPerFinder` (`Exclusion`), `NoAbandonedClaim` (`ClaimsAreSettled`) |
| `MonitorLifecycleProofs` | `LifecycleInvariant`; `OneWorker`, `OrdinaryWhenOff`, `ContentsKept`, `RecoveryHasCause`, `ProgramListsStay`; `DeadlocksImport`, `OneCycle`, `NoImportNoDeadlock` |
| `MonitoringRegionsProofs` | `RegionInvariant`; `MonitoredInside`, `NothingLeftBehind`, `EarlierInstallationStays`; `RegionsImplementLease`: without callers and interrupts `Spec => LeaseSpec` |
| `AttachmentProofs` | `AttachmentInvariant`; `ActiveIsReachable`, `ActiveMeansMonitored`, `OwnReport`, `NoSecondStop`, `DeliveredBeforeRemoved` |
| `FileCommandsProofs`, `SiteBootstrapProofs` | `CacheInvariant`, `BootstrapInvariant`; `ArchivesStay`, `SaysWhatIsSo`, `StuckWasGivenUp`, `ForeignFileStays` |
| `EvidenceLogProofs` | `ObserverInvariant`; `LogExplainsCache`, `ReportIsCurrent`, `HooksAccounted` |
| `DetailedCaptureProofs` | `ProfilingInvariant`, `LeaseInvariant`, `OneExplorationAlways`; `ShadowsAreTheStack`, `RecordsJoin`, `OneRecordPerImport`, `ProfilersOfOthers`, `ExploresEveryLaterSibling` |

Each inductive invariant is checked by TLC in one of the runs, so that a reader can
see it hold on a small instance (`FinderShadowingLive.cfg` and the main runs of the
other modules).  Its parts are named in the module, and the proof has a lemma for
each part and a step for each action that can disturb it.  What each is needed for:

*Finder attribution.*  `RestoredAfterUninstall` and `NoAbandonedClaim` speak of the
end only.  While the patches are live (monitoring is on or uninstall has not cleared
them) an attempt owns its claim alone (`LiveClaims`), what it noted as the previous
entry is the program's (`FoundIsTheirs`), and until it assigns nothing of ours is
there (`NothingThereYet`); a wrapper in a finder that is not stuck is always accounted
for (`SlotIsAccountedFor`) by a thread that still has to settle it, or by a patch that
remembers the program's entry and that uninstall has still to restore
(`DoomedArePatches`).  A claim that outlives the patches belongs to a thread that
will see itself refused (`DeadClaimsAreRefused`), and while monitoring is on nobody
gives a claim up quietly (`NoUndoWhileOn`).

*Monitor.*  Lists are objects, so every property is about which of them are the
same.  `WorkIsOwned` ties the lock and the transition to the places of the threads
and gives one worker; `DraftFits` and `DraftIsPrivate` say that a copy is nobody's
until it is published and holds what the live list holds; `StoredIsHeld`,
`FoundStillHolds` and `LettingGo` say which lists the monitor still holds at each
place of an installation, an uninstallation and a recovery.  `OrdinaryWhenOff` is
what `StoredIsHeld` is when all leases are gone.  The exception for a list the
program put back is needed, and TLC finds the behaviour without it.

`NoLockCycle` does not hold, so what is proved is how bad that is.  `Awaits(t, u)`
says that `t` can go on only when `u` has given up the lock, the transition or the
module; a set of threads each of which awaits one of them is deadlocked.  From
`WorkIsOwned` every deadlocked set contains a thread that installs or recovers and
imports for a finder (`DeadlocksImport`), so without such imports there is no
deadlock (`NoImportNoDeadlock`), and `NoLockCycle` says exactly that no threads
inside the monitor are deadlocked (`OneCycle`): the recorded cycle is the only one.
A finder that calls `install()` or `uninstall()` itself when it is looked at is not
in the model.

*Regions.*  `MonitoredInside` is not inductive because the code decides by its count
and its ownership flag, not by looking at who is inside.  `RegionInv` says that these
agree: the count is the number of regions that count (`CountIsExact`), at most
one region is in a transition and then none counts (`OneTransition`), the first
region has monitoring on before it counts (`MonitoredWhileBusy`), and an
enabled installation was made by a region exactly when some region will remove
it (`RemovedByOwner`).  For the refinement `LeaseInv` adds that nothing
disturbs, from which monitoring is on exactly when it was on before or a lease
is held (`ActiveWhileHeld`); since a step changes what one region holds
(`OneHolder`), it is a stutter, a `Take` or a `GiveBack`.

*Attachment.*  The theorems are about any number of commands.  That only one of them
is at work (`OneAtWork`) is what `mkdir` gives to `attach`, since the directory stands
while anyone works (`FilesFit`), and what `raced` records the loss of.  A command in the
handler is not at work: what it removes is its own, which nobody uses, or is a race.  Until then a
command acts on the manifest it has read (`CommandFits`), a status was written by the
process whose session it is (`StatusFits`), a session that may yet be stopped has not
been (`StopsFit`), and what happens in the target is about the session whose files are
there (`SessionFits`); this last one, and that the report is its own, only until a start
script has been run by a later process of the id than the one it was meant for
(`stray`).  With `raced` only the types and `HasSession` are left: all the rest needs
that no file changes between what a command reads and what it writes.

*Archives.*  `ArchivesStay` is not about what is there but about who needs it.  A
process that was ever monitored is leased or still starting (`ServedIsCovered`), a
command about to start a session is alone with it (`StartIsAlone`), and what a prune
has read so far, with what it has yet to read, covers every manifest and every such
process (`PruneSpares`): a process that is still starting when its manifest is read is
spared by that, and one that is leased meanwhile by either.
These three end with the first of the recorded races (`raced`); the types, the
locals of a command and that births only grow do not.  The proofs are in
`FileCommandsProofs`, for any number of commands at once.

*Start-up file.*  What a command inspected is what is there until it acts, unless it
was disturbed (`GoesByWhatItSaw`), and a file has the maker its kind says (`MadeBy`);
`StuckWasGivenUp` follows, since every way out of `write` and `undo` that leaves the file
is one that `gaveUp` records.

*Log.*  That one snapshot at a time is in flight follows from the flag only if the
flag is up exactly while one is, and that fails after a BaseException until the next
uninstall, so `FlightInv` says what holds in between as well.  `LogExplainsCache` is
inductive with the types, because `Publish` alone writes what it speaks of
(`OnlyPublishWrites`).  `ReportIsCurrent` needs `Ages`: what was published was taken no
later than now (`seen`), nothing in flight is older than what is published, a report
began no later than now, and an observation made for a report is no older than the
report.  `HooksAccounted` speaks of moments at which nobody changes the list.  In
between the records, and what each thread in the middle of an operation has still to
record, make up the list (`RecordsAddUp`).  Infinitely many threads may be there
and only finitely many owe anything, so the sum is counted as a set of units
(`Units`, `Finite`): a step moves at most one thread's, and the lemmas `UnitsChange`
and `DebtsMove` say by how much.  `ListFits` and `LocalsFit` tell which list a thread
will record for, and that what it noted is still true of it.

*Detailed capture.*  `WellNested` says what the loops of an explorer look like from the
outside in: the outermost restores the flag, the others are inside a hook.
`ExploresEveryLaterSibling` speaks of the log alone; the invariant adds where the
exploration is (`Position`) and that what its one or two loops have left is what
comes after that candidate (`AtPosition`, `InOrder`).  What comes next is a function
of the candidate (`Following`), so no recursion over the log is needed.  The
leases: who installs (`HolderFits`), that the one wrapper of ours is the leased one while
none is buried (`WrapperFits`), and whose the profilers are at each place
(`ProfilersFit`): unless raced, what was tested is so until it is set.  Records: the thread has four stacks, and the monitor's three are
compared with the real one by an increasing map of places (`Shadows`), of which three
facts carry everything: it is kept when something else is called or returns
(`ShadowKept`), it grows and shrinks at its end (`ShadowGrows`, `ShadowShrinks`),
and its last entry is the innermost place (`ShadowTop`).  An import between its
two events is the innermost frame (`FramesFit`), a search that is drawn but not entered
is that import's (`PendingFits`), and that import has its search if the events so far
were seen (`AskingFits`); from these every id is drawn once per import, whichever
event comes first, and a record's search is the one of the frame it happened in.

Only model-checked: liveness and what else needs fairness (`EventuallyRestored`,
`EventuallyWrapped`, `EventuallyEntered`, `EventuallyCleared`), which is beyond the
proof system.  Every invariant and every action property of a passing run is a theorem.

## Disagreements with the documentation

The two refuting runs end in a trace of what the code does:

1. A wrapper can survive `uninstall()`: `_commit_shadow` tests `_enabled` under
   `_record_lock` and stores its patch, `_uninstall` clears the flag without it.
2. Recovery accesses finders under `_reinstall_lock`, which the development
   rules forbid; two threads can wait for each other.

Others that no run is spent on.  In the runtime and the monitor:

* After install, uninstall and an interrupted install, `install()` returns with
  nothing monitored, because `_enabled` is already up and `_active_capture`
  still holds the settings of the first one (`docs/capture.md:8`).
* A region removes an installation that a caller made after the region looked
  (`docs/api.md:38-39`; `EarlierInstallationStays` claims it of earlier ones only).
* A `KeyboardInterrupt` in the `uninstall()` of a failed region leaves
  `_monitoring_region_transition` set (`UninstallInterrupted`).
* A claim refused by `_prepare_claim` outlives `uninstall()`, whose docstring says
  that all capture-lifetime state is discarded (`_finder_attribution.py:153`); one whose
  attempt an interrupt ended stays until `uninstall()` and keeps its finder without a
  wrapper (the history variable `orphaned`).
* A finder whose `__setattr__` stores and then raises is skipped with the wrapper in it,
  and `uninstall()` does not take it out (`_finder_attribution.py:228-231`); nor does it
  restore a finder whose `__dict__` is no plain dict (`stuck`).
* An older instrumented list that the program put back stays live after
  `uninstall()` (`assigner` in `OrdinaryWhenOff`); an item appended between the copy
  and the store of a list is lost (`overlap` in `ContentsKept`).

In the log and detailed capture:

* After an `uninstall()` under a running snapshot the next installation can
  publish an older cache over a newer one (`straddled` in `ReportIsCurrent`); after a
  BaseException in a snapshot nothing is observed until `uninstall()` (`cutOff`).
* A path-hook record can come from the list of an earlier installation when
  uninstall and install fall between the two looks at the flags (`blurred`).
* An `uninstall()` on another thread leaves our profiler in the installing one,
  and the next installation refuses because of it (`strayed`); a profiler set
  between a test and the set it allows is replaced, at uninstallation too (`raced` in
  `CaptureLeases`).
* The search of an import that was refused after its audit event, or made inside the
  profiler's callback, is taken by the next import of that name, and a
  `KeyboardInterrupt` in the callback parts the shadow stacks from the real one
  (`skewed`).
* A wrapper left beneath another tool's records each import a second time in the
  next installation (`buried`).

In the commands:

* Two `stop` commands can both schedule a stop (`docs/attachment.md:49-50`); with a
  `stop` beside another command `OwnReport` fails too, because one delivers with the
  manifest it has in memory (`raced` in `Attachment`).
* A start script goes to a later process of the id if the one it was meant for ends
  between the last look and `sys.remote_exec`; the report it leads to can then stand
  beside a later session (`stray` in `OwnReport`).
* The handler of an `attach` that fails before its manifest, or after a scheduling that
  failed, can remove the directory another `attach` has reserved meanwhile
  (`_attachment.py:136-137`, `raced` in both models); its owner then goes on without
  what it had written.
* A target that exits in order before any command has acknowledged its session has no
  lease when its status is final, and pruning can take its archive while it still runs
  (`raced` in `PackageCache`).
* A command killed between its reservation and its first status leaves a session
  no command can handle (`broken`).
* Pruning can take an archive that another `attach` has staged and not yet named
  in a manifest (`raced` in `PackageCache`), and of two prunes at once one fails.
* A start-up file cut short by a crash, by an interrupt between `os.open` and the `try`,
  or by a handler whose `unlink` fails counts as foreign, and no command removes it
  (`gaveUp` in `StuckWasGivenUp`).  A foreign file written between the look and the act
  is deleted (`disturbed`).

## What the exceptions leave

Many properties hold up to a history variable (`raced`, `stray`, `broken`, `orphaned`,
`stuck`, `overlap`, `assigner`, `straddled`, `cutOff`, `blurred`, `buried`, `strayed`,
`skewed`, `disturbed`).  Each records one precisely named event, set in the action where
it happens, after which the code does break the property; the list above says what then
goes wrong.  So of these events the properties say that they are the only ones: the
models contain them, the runs reach them, and nothing else the models do leads to the
failure.  They do not say that the events do no harm.

## Not modelled, and next

Next, as models: the patches of loaders and path-entry finders in detailed capture
(restored like those of `FinderShadowing`), `observe_api`, and the displaced finder
check's cap.  Also left out: an interrupt of `attach` after `sys.remote_exec` has
scheduled the script and before that call returns.

Pure functions without state of their own, left out: the joins and
classification of a report, the precedence of the configuration, argument
parsing, the record classes, rendering (wording and layout), the generated
start-up text.  The reproductions under `reproductions/` are copies of other
projects; they are more than two thirds of the lines of the repository, and the
tests and scripts are no part of the program either.  So the share of
all lines that can be modelled is small, and a model of rendering or of a vendored
parser would say nothing about metapathology.
