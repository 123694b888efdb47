---------------------------- MODULE EvidenceLog ----------------------------
(***************************************************************************)
(* What the log says against what happened: the rolling observation of     *)
(* sys.path_importer_cache, the mutations of sys.path_hooks, and reports   *)
(* taken while threads go on working.                                      *)
(*                                                                         *)
(* Code: _ImporterCacheObserver (_importer_cache.py), the callbacks and    *)
(* _snapshot of Monitor (_monitor.py) and the mutators of                  *)
(* _InstrumentedList (_instrumented_list.py).                              *)
(*                                                                         *)
(* Data.  The cache holds one of a few contents; `moment` counts its       *)
(* changes, so that an old content can be told from a new one.  Hooks are  *)
(* interchangeable: a list is its length, a mutation record the number it  *)
(* says was added or (negative) removed, the records of one installation   *)
(* their sum.  Importer-cache records are kept one by one.                 *)
(*                                                                         *)
(* Grain of atomicity.  A critical section of _record_lock is one step, as *)
(* is the copy of the cache and each list operation; the GIL makes them    *)
(* so.  Threads interleave between them.                                   *)
(*                                                                         *)
(* Left out: a list operation made inside one of the monitor's own         *)
(* callbacks, which their guard does not record, and the recovery of a     *)
(* path_hooks list that the program replaced (MonitorLifecycle).           *)
(*                                                                         *)
(* Operators whose name starts with M are faults the checks are measured   *)
(* with: each stands for a plausible mistake in the definition below it.   *)
(***************************************************************************)
EXTENDS Integers, Sequences, FiniteSets

CONSTANTS
  Threads, Nobody,
  Contents,     \* what the cache may hold
  None,         \* no snapshot yet
  MaxMoments,   \* bound: changes of the cache
  MaxInstalls,  \* bound: installations
  MaxOps,       \* bound: mutations of the path hooks
  Interrupts    \* may a BaseException end a snapshot

ASSUME ThreadAssumption == Nobody \notin Threads
ASSUME ContentAssumption == None \notin Contents
ASSUME BoundAssumption ==
  /\ MaxMoments \in Nat /\ MaxInstalls \in Nat /\ MaxOps \in Nat
  /\ Interrupts \in BOOLEAN

Kinds == {"append", "extend", "clear"}
PC == {"idle", "observe", "snapshot", "publish", "before", "count", "mutate",
       "slice", "notify", "record", "copy", "expose", "caching", "installed",
       "disable", "unhook", "forget"}
Returns == {"idle", "installed", "disable", "copy", "count"}

VARIABLES
  enabled, hooksOn,  \* Monitor._enabled, _path_hooks_enabled
  live,              \* _instrumented_path_hooks: its installation, 0 for none
  owner,             \* who holds _transition_generation or the condition
  cache, moment,     \* sys.path_importer_cache; history: its changes so far
  cacheOn, active,   \* _ImporterCacheObserver._enabled, _observation_active
  latest, initial,   \* _latest, Monitor.initial_importer_cache
  changes,           \* the ImporterCacheChange records
  hooks,             \* length of the live list
  recorded,          \* sum of the PathHooksChange records since `first`
  pc, snap,          \* snap: the snapshot a thread has taken
  next, starting,    \* where observe() returns to; its argument `initial`
  on, kind, took,    \* the list mutated, how, and the locals before/added
  installs, ops,     \* bounds: so far
  base,              \* history: Len(changes) when `initial` was set
  seen,              \* history: the moment `latest` was copied at
  first,             \* history: length of the live list when exposed
  asked, missed,     \* history: moment a report began; its snapshot was
                     \* coalesced, failed or dropped
  straddled,         \* history: uninstall() ended under a running snapshot
  cutOff,            \* history: a BaseException ended a snapshot
  blurred            \* history: a mutation of the live list fell between the
                     \* steps of another, or a record came from an old list

flags   == <<enabled, hooksOn, live, owner>>
rolling == <<cacheOn, active, latest, initial, changes, base, seen>>
world   == <<cache, moment>>
list    == <<hooks, recorded, first, blurred>>
op      == <<on, kind, took>>
call    == <<snap, next, starting>>
bounds  == <<installs, ops>>
report  == <<asked, missed>>
faults  == <<straddled, cutOff>>
vars == <<flags, rolling, world, list, op, call, pc, bounds, report, faults>>

Goto(t, label) == pc' = [pc EXCEPT ![t] = label]
At(t, label) == pc[t] = label
Observing(t) == pc[t] \in {"snapshot", "publish"}
Snapshots == [value : Contents, taken : 0..MaxMoments]
ASSUME SnapshotAssumption == None \notin Snapshots
Changes == [was : Contents, now : Contents]

\* Every variable has its type.
TypeOK ==
  /\ enabled \in BOOLEAN /\ hooksOn \in BOOLEAN
  /\ live \in 0..MaxInstalls /\ owner \in Threads \union {Nobody}
  /\ cache \in Contents /\ moment \in 0..MaxMoments
  /\ cacheOn \in BOOLEAN /\ active \in BOOLEAN
  /\ latest \in Contents \union {None} /\ initial \in Contents \union {None}
  /\ changes \in Seq(Changes)
  /\ hooks \in Nat /\ recorded \in Int
  /\ pc \in [Threads -> PC]
  /\ snap \in [Threads -> Snapshots \union {None}]
  /\ next \in [Threads -> Returns] /\ starting \in [Threads -> BOOLEAN]
  /\ on \in [Threads -> 0..MaxInstalls] /\ kind \in [Threads -> Kinds]
  /\ took \in [Threads -> Int]
  /\ installs \in 0..MaxInstalls /\ ops \in 0..MaxOps
  /\ base \in Nat /\ seen \in 0..MaxMoments /\ first \in Nat
  /\ asked \in [Threads -> 0..MaxMoments] /\ missed \in [Threads -> BOOLEAN]
  /\ straddled \in BOOLEAN /\ cutOff \in BOOLEAN /\ blurred \in BOOLEAN

Init ==
  /\ enabled = FALSE /\ hooksOn = FALSE /\ live = 0 /\ owner = Nobody
  /\ cache \in Contents /\ moment = 0
  /\ cacheOn = FALSE /\ active = FALSE
  /\ latest = None /\ initial = None
  /\ changes = <<>> /\ base = 0 /\ seen = 0
  /\ hooks = 0 /\ recorded = 0 /\ first = 0 /\ blurred = FALSE
  /\ on = [t \in Threads |-> 0] /\ kind = [t \in Threads |-> "append"]
  /\ took = [t \in Threads |-> 0]
  /\ snap = [t \in Threads |-> None] /\ next = [t \in Threads |-> "idle"]
  /\ starting = [t \in Threads |-> FALSE]
  /\ pc = [t \in Threads |-> "idle"]
  /\ installs = 0 /\ ops = 0
  /\ asked = [t \in Threads |-> 0] /\ missed = [t \in Threads |-> FALSE]
  /\ straddled = FALSE /\ cutOff = FALSE

\* An import, or another tool, changes the cache.
CacheChanges ==
  /\ moment < MaxMoments
  /\ moment' = moment + 1
  /\ cache' \in Contents \ {cache}
  /\ UNCHANGED <<flags, rolling, list, op, call, pc, bounds, report, faults>>

\* A mutation, a report or a call ends, and its locals with it.
EndOp(t) ==
  /\ on' = [on EXCEPT ![t] = 0]
  /\ kind' = [kind EXCEPT ![t] = "append"]
  /\ took' = [took EXCEPT ![t] = 0]
EndReport(t) ==
  /\ asked' = [asked EXCEPT ![t] = 0]
  /\ missed' = [missed EXCEPT ![t] = FALSE]
EndCall(t) ==
  /\ snap' = [snap EXCEPT ![t] = None]
  /\ next' = [next EXCEPT ![t] = "idle"]
  /\ starting' = [starting EXCEPT ![t] = FALSE]
Abandon(t) == Goto(t, "idle") /\ EndOp(t) /\ EndReport(t) /\ EndCall(t)

(***************************************************************************)
(* observe(): one snapshot at a time, taken outside the record lock.       *)
(***************************************************************************)
\* Some step of t calls observe() and goes on at `label` after it.
Call(t, label, isInitial) ==
  /\ Goto(t, "observe")
  /\ next' = [next EXCEPT ![t] = label]
  /\ starting' = [starting EXCEPT ![t] = isInitial]
  /\ UNCHANGED snap

Return(t) == Goto(t, next[t]) /\ EndCall(t)

Miss(t) ==
  missed' = [missed EXCEPT ![t] = next[t] = "copy"] /\ UNCHANGED asked

MAlwaysObserve(t) ==
  /\ At(t, "observe")
  /\ IF enabled /\ cacheOn
       THEN /\ active' = TRUE /\ Goto(t, "snapshot") /\ UNCHANGED <<call, report>>
       ELSE /\ Return(t) /\ Miss(t) /\ UNCHANGED active
  /\ UNCHANGED <<flags, cacheOn, latest, initial, changes, base, seen, world,
                 list, op, bounds, faults>>

\* Off, or coalesced into the observation already running.
Observe(t) ==
  /\ At(t, "observe")
  /\ IF enabled /\ cacheOn /\ ~active
       THEN /\ active' = TRUE /\ Goto(t, "snapshot") /\ UNCHANGED <<call, report>>
       ELSE /\ Return(t) /\ Miss(t) /\ UNCHANGED active
  /\ UNCHANGED <<flags, cacheOn, latest, initial, changes, base, seen, world,
                 list, op, bounds, faults>>

Snapshot(t) ==
  /\ At(t, "snapshot")
  /\ snap' = [snap EXCEPT ![t] = [value |-> cache, taken |-> moment]]
  /\ Goto(t, "publish")
  /\ UNCHANGED <<flags, rolling, world, list, op, next, starting, bounds,
                 report, faults>>

\* The copy raises an Exception: a monitoring error instead of a snapshot.
SnapshotFails(t) ==
  /\ At(t, "snapshot")
  /\ active' = FALSE
  /\ Return(t) /\ Miss(t)
  /\ UNCHANGED <<flags, cacheOn, latest, initial, changes, base, seen, world,
                 list, op, bounds, faults>>

\* `except Exception` lets a BaseException through, and nothing lowers the
\* flag; the interrupted call is abandoned.
SnapshotInterrupted(t) ==
  /\ Interrupts /\ At(t, "snapshot")
  /\ Abandon(t)
  /\ owner' = IF owner = t THEN Nobody ELSE owner
  /\ cutOff' = TRUE
  /\ UNCHANGED <<enabled, hooksOn, live, rolling, world, list, bounds,
                 straddled>>

IsInitial(t) == starting[t] \/ latest = None

MPublishForgets(t) ==
  /\ At(t, "publish")
  /\ active' = FALSE
  /\ IF enabled /\ cacheOn
       THEN /\ latest' = snap[t].value /\ seen' = snap[t].taken
            /\ IF latest = None
                 THEN initial' = snap[t].value /\ base' = Len(changes)
                 ELSE UNCHANGED <<initial, base>>
            /\ changes' = IF IsInitial(t) \/ latest = snap[t].value
                            THEN changes
                            ELSE Append(changes, [was |-> latest,
                                                  now |-> snap[t].value])
            /\ UNCHANGED report
       ELSE UNCHANGED <<latest, seen, initial, base, changes>> /\ Miss(t)
  /\ Return(t)
  /\ UNCHANGED <<flags, cacheOn, world, list, op, bounds, faults>>

\* The first snapshot of an installation is its initial state; a later one
\* becomes a record when it differs from the one before.
Publish(t) ==
  /\ At(t, "publish")
  /\ active' = FALSE
  /\ IF enabled /\ cacheOn
       THEN /\ latest' = snap[t].value /\ seen' = snap[t].taken
            /\ IF IsInitial(t)
                 THEN initial' = snap[t].value /\ base' = Len(changes)
                 ELSE UNCHANGED <<initial, base>>
            /\ changes' = IF IsInitial(t) \/ latest = snap[t].value
                            THEN changes
                            ELSE Append(changes, [was |-> latest,
                                                  now |-> snap[t].value])
            /\ UNCHANGED report
       ELSE UNCHANGED <<latest, seen, initial, base, changes>> /\ Miss(t)
  /\ Return(t)
  /\ UNCHANGED <<flags, cacheOn, world, list, op, bounds, faults>>

(***************************************************************************)
(* install(), uninstall() and reports.                                     *)
(***************************************************************************)
InstallBegin(t) ==
  /\ At(t, "idle") /\ owner = Nobody /\ ~enabled /\ installs < MaxInstalls
  /\ owner' = t /\ enabled' = TRUE
  /\ installs' = installs + 1
  /\ Goto(t, "expose")
  /\ UNCHANGED <<hooksOn, live, rolling, world, list, op, call, ops, report,
                 faults>>

\* _enable_path_hooks: the live list is a new object with the old contents.
ExposeHooks(t) ==
  /\ At(t, "expose")
  /\ hooksOn' = TRUE /\ live' = installs
  /\ first' = hooks /\ recorded' = 0 /\ blurred' = FALSE
  /\ Goto(t, "caching")
  /\ UNCHANGED <<enabled, owner, rolling, world, hooks, op, call, bounds,
                 report, faults>>

\* enable(): on, then the initial snapshot.
EnableCache(t) ==
  /\ At(t, "caching")
  /\ cacheOn' = TRUE
  /\ Call(t, "installed", TRUE)
  /\ UNCHANGED <<flags, active, latest, initial, changes, base, seen, world,
                 list, op, bounds, report, faults>>

InstallEnd(t) ==
  /\ At(t, "installed")
  /\ owner' = Nobody
  /\ Goto(t, "idle")
  /\ UNCHANGED <<enabled, hooksOn, live, rolling, world, list, op, call,
                 bounds, report, faults>>

UninstallBegin(t) ==
  /\ At(t, "idle") /\ owner = Nobody /\ enabled
  /\ owner' = t
  /\ Call(t, "disable", FALSE)
  /\ UNCHANGED <<enabled, hooksOn, live, rolling, world, list, op, bounds,
                 report, faults>>

Disable(t) ==
  /\ At(t, "disable")
  /\ enabled' = FALSE
  /\ Goto(t, "unhook")
  /\ UNCHANGED <<hooksOn, live, owner, rolling, world, list, op, call, bounds,
                 report, faults>>

\* A plain copy takes the place of the instrumented list.
Unhook(t) ==
  /\ At(t, "unhook")
  /\ hooksOn' = FALSE /\ live' = 0
  /\ Goto(t, "forget")
  /\ UNCHANGED <<enabled, owner, rolling, world, list, op, call, bounds,
                 report, faults>>

MLeaveActive(t) ==
  /\ At(t, "forget")
  /\ cacheOn' = FALSE
  /\ owner' = Nobody
  /\ straddled' = (straddled \/ \E u \in Threads : Observing(u))
  /\ cutOff' = FALSE
  /\ Goto(t, "idle")
  /\ UNCHANGED <<enabled, hooksOn, live, active, latest, initial, changes,
                 base, seen, world, list, op, call, bounds, report>>

\* _ImporterCacheObserver.uninstall: `_latest` is kept.
Forget(t) ==
  /\ At(t, "forget")
  /\ cacheOn' = FALSE /\ active' = FALSE
  /\ owner' = Nobody
  /\ straddled' = (straddled \/ \E u \in Threads : Observing(u))
  /\ cutOff' = FALSE
  /\ Goto(t, "idle")
  /\ UNCHANGED <<enabled, hooksOn, live, latest, initial, changes, base, seen,
                 world, list, op, call, bounds, report>>

ReportBegin(t) ==
  /\ At(t, "idle")
  /\ asked' = [asked EXCEPT ![t] = moment]
  /\ missed' = [missed EXCEPT ![t] = FALSE]
  /\ Call(t, "copy", FALSE)
  /\ UNCHANGED <<flags, rolling, world, list, op, bounds, faults>>

\* _snapshot: the rest is copied under the record lock.
ReportCopy(t) ==
  /\ At(t, "copy")
  /\ Goto(t, "idle") /\ EndReport(t)
  /\ UNCHANGED <<flags, rolling, world, list, op, call, bounds, faults>>

(***************************************************************************)
(* A mutation of the instrumented sys.path_hooks.  append() has one step   *)
(* between the callbacks; extend() reads the length, extends and slices    *)
(* what landed; clear() copies what it is about to remove.                 *)
(***************************************************************************)
InOp(t) == pc[t] \in {"before", "count", "mutate", "slice", "notify", "record"}
           \/ (pc[t] \in {"observe", "snapshot", "publish"} /\ next[t] = "count")
HalfDone(t) == /\ on[t] = live
               /\ \/ kind[t] = "clear" /\ At(t, "mutate")
                  \/ kind[t] = "extend" /\ pc[t] \in {"mutate", "slice"}
Watched(t) == enabled /\ hooksOn /\ on[t] = live

MutationBegin(t, how) ==
  /\ At(t, "idle") /\ live # 0 /\ ops < MaxOps
  /\ ops' = ops + 1
  /\ on' = [on EXCEPT ![t] = live] /\ kind' = [kind EXCEPT ![t] = how]
  /\ took' = [took EXCEPT ![t] = 0]
  /\ Goto(t, "before")
  /\ UNCHANGED <<flags, rolling, world, list, call, installs, report, faults>>

\* _on_path_hooks_before_mutation
BeforeMutation(t) ==
  /\ At(t, "before")
  /\ IF Watched(t)
       THEN Call(t, "count", FALSE)
       ELSE Goto(t, "count") /\ UNCHANGED call
  /\ UNCHANGED <<flags, rolling, world, list, op, bounds, report, faults>>

\* len(self), or tuple(self)
Count(t) ==
  /\ At(t, "count")
  /\ took' = [took EXCEPT ![t] = IF kind[t] = "append" THEN 1
                              ELSE IF kind[t] = "extend" THEN hooks
                              ELSE -hooks]
  /\ Goto(t, "mutate")
  /\ UNCHANGED <<flags, rolling, world, list, on, kind, call, bounds, report,
                 faults>>

\* An extend() leaves what its iterable yielded before it ended or raised.
Landed(t) == IF kind[t] = "extend" THEN 0..1 ELSE {1}

\* The list operation itself, on the list it was called on.
Mutate(t) ==
  /\ At(t, "mutate")
  /\ IF on[t] # live \/ kind[t] = "clear"
       THEN hooks' = IF on[t] # live THEN hooks ELSE 0
       ELSE \E landed \in Landed(t) : hooks' = hooks + landed
  /\ blurred' = (blurred \/ (on[t] = live
                             /\ \E u \in Threads \ {t} : HalfDone(u)))
  /\ Goto(t, IF kind[t] = "extend" THEN "slice" ELSE "notify")
  /\ UNCHANGED <<flags, rolling, world, recorded, first, op, call, bounds,
                 report, faults>>

MSliceAll(t) ==
  /\ At(t, "slice")
  /\ took' = [took EXCEPT ![t] = hooks]
  /\ Goto(t, "notify")
  /\ UNCHANGED <<flags, rolling, world, list, on, kind, call, bounds, report,
                 faults>>

\* tuple(self[before:])
Slice(t) ==
  /\ At(t, "slice")
  /\ took' = [took EXCEPT ![t] = hooks - took[t]]
  /\ Goto(t, "notify")
  /\ UNCHANGED <<flags, rolling, world, list, on, kind, call, bounds, report,
                 faults>>

\* _on_path_hooks_change up to the lock.
Notify(t) ==
  /\ At(t, "notify")
  /\ IF Watched(t)
       THEN Goto(t, "record") /\ UNCHANGED op
       ELSE Goto(t, "idle") /\ EndOp(t)
  /\ UNCHANGED <<flags, rolling, world, list, call, bounds, report, faults>>

\* Under the lock the flags are looked at again, but not the list.
Record(t) ==
  /\ At(t, "record")
  /\ IF enabled /\ hooksOn
       THEN /\ recorded' = recorded + took[t]
            /\ blurred' = (blurred \/ on[t] # live)
            /\ Call(t, "idle", FALSE)
       ELSE Goto(t, "idle") /\ UNCHANGED <<recorded, blurred, call>>
  /\ EndOp(t)
  /\ UNCHANGED <<flags, rolling, world, hooks, first, bounds, report, faults>>

Step(t) ==
  \/ Observe(t) \/ Snapshot(t) \/ SnapshotFails(t) \/ SnapshotInterrupted(t)
  \/ Publish(t)
  \/ InstallBegin(t) \/ ExposeHooks(t) \/ EnableCache(t) \/ InstallEnd(t)
  \/ UninstallBegin(t) \/ Disable(t) \/ Unhook(t) \/ Forget(t)
  \/ ReportBegin(t) \/ ReportCopy(t)
  \/ \E how \in Kinds : MutationBegin(t, how)
  \/ BeforeMutation(t) \/ Count(t) \/ Mutate(t) \/ Slice(t) \/ Notify(t)
  \/ Record(t)

Next == CacheChanges \/ \E t \in Threads : Step(t)

Spec == Init /\ [][Next]_vars

(***************************************************************************)
(* Properties.                                                             *)
(***************************************************************************)
\* The importer-cache records since the initial snapshot lead from it to the
\* latest one without a gap, also when an installation follows another,
\* although observations are coalesced, fail, are interrupted or publish
\* late (observe, _diff_importer_cache).
LogExplainsCache ==
  initial # None =>
    /\ base <= Len(changes)
    /\ base = Len(changes) => latest = initial
    /\ base < Len(changes) => /\ changes[base + 1].was = initial
                              /\ changes[Len(changes)].now = latest
    /\ \A i \in base + 1 .. Len(changes) - 1 :
         changes[i].now = changes[i + 1].was

\* A report whose own observation was neither coalesced nor failed shows the
\* cache as it was when the report began, or later: no thread publishes an
\* older snapshot over it.  An uninstall() that ends under a running snapshot
\* loses this (_snapshot, observe, _ImporterCacheObserver.uninstall).
ReportIsCurrent ==
  \A t \in Threads :
    At(t, "copy") /\ ~missed[t] /\ ~straddled => seen >= asked[t]

\* One snapshot at a time, and observation is closed exactly while one runs.
\* The exceptions: a BaseException that ended a snapshot closes it until the
\* next uninstall(), and an uninstall() opens it under a running snapshot.
SingleFlight ==
  ~straddled =>
    /\ \A t, u \in Threads : Observing(t) /\ Observing(u) => t = u
    /\ active <=> cutOff \/ \E t \in Threads : Observing(t)

\* What single flight rests on: a snapshot about to be published was taken,
\* and after a BaseException nothing is in flight until uninstall() opens the
\* observer again (observe, _ImporterCacheObserver.uninstall).
PublishesSnapshot == \A t \in Threads : At(t, "publish") => snap[t] # None
ClosedIsIdle == ~straddled /\ cutOff => \A t \in Threads : ~Observing(t)

\* Between mutations the records of an installation add up to the live list,
\* unless a mutation fell between the steps of an extend() or a clear() of
\* another thread ("best-effort"), or a record came from the list of an
\* earlier installation (_extend_and_record, clear, _on_path_hooks_change).
HooksAccounted ==
  enabled /\ hooksOn /\ ~blurred /\ ~(\E t \in Threads : on[t] = live /\ InOp(t))
    => first + recorded = hooks

\* What a mutation has done to the live list and not recorded yet; the units
\* of such debts, counted without a sum over threads.
Owed == [t \in Threads |->
           IF on[t] # live THEN 0
           ELSE IF At(t, "slice") THEN hooks - took[t]
           ELSE IF pc[t] \in {"notify", "record"} THEN took[t]
           ELSE 0]
Units(debt) == UNION {{t} \X (1..debt[t]) : t \in Threads}
Total(debt) ==
  Cardinality(Units(debt)) - Cardinality(Units([t \in Threads |-> -debt[t]]))
Finite(debt) ==
  /\ IsFiniteSet(Units(debt))
  /\ IsFiniteSet(Units([t \in Threads |-> -debt[t]]))

\* What HooksAccounted rests on: one thread at a time installs or uninstalls;
\* a list belongs to the installation that exposed it; the locals of a
\* mutation of the live list are true of it; and at every moment the records
\* and what is owed to them add up.
Managing(t) ==
  \/ pc[t] \in {"expose", "caching", "installed", "disable", "unhook", "forget"}
  \/ /\ pc[t] \in {"observe", "snapshot", "publish"}
     /\ next[t] \in {"installed", "disable"}
OneManager == \A t \in Threads : Managing(t) => owner = t
ListFits ==
  /\ live = 0 <=> ~hooksOn
  /\ live <= installs /\ \A t \in Threads : on[t] <= installs
  /\ hooksOn /\ ~enabled => \E t \in Threads : At(t, "unhook")
  /\ \A t \in Threads : At(t, "expose") =>
       enabled /\ ~hooksOn /\ \A u \in Threads : on[u] < installs
LocalsFit ==
  hooksOn /\ ~blurred => \A t \in Threads : on[t] = live =>
    /\ At(t, "mutate") =>
         \/ kind[t] = "append" /\ took[t] = 1
         \/ kind[t] = "extend" /\ took[t] = hooks
         \/ kind[t] = "clear" /\ took[t] = -hooks
    /\ At(t, "slice") => kind[t] = "extend"
RecordsAddUp ==
  enabled /\ hooksOn /\ ~blurred =>
    Finite(Owed) /\ first + recorded + Total(Owed) = hooks
HooksInv == OneManager /\ ListFits /\ LocalsFit /\ RecordsAddUp

\* The whole, inductive with the types.
ObserverInv ==
  TypeOK /\ PublishesSnapshot /\ SingleFlight /\ ClosedIsIdle /\ HooksInv
=============================================================================
