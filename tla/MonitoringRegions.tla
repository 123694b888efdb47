------------------------- MODULE MonitoringRegions -------------------------
(***************************************************************************)
(* The public lifecycle: monitoring() regions that nest and overlap in any *)
(* way, next to explicit calls of install() and uninstall().               *)
(*                                                                         *)
(* Code: install, uninstall, monitoring and _release_monitoring_region     *)
(* (_runtime.py).  What a Monitor does inside is MonitorLifecycle; here it *)
(* is the flag _enabled and whether the call returns or raises.            *)
(*                                                                         *)
(* An actor is one `with monitoring()` statement, entered once, or a piece *)
(* of the program that calls install() and uninstall() itself.  Nested     *)
(* statements of one thread are actors whose steps happen to nest.         *)
(*                                                                         *)
(* Operators whose name starts with M are faults the checks are measured   *)
(* with: each stands for a plausible mistake in the definition below it.   *)
(*                                                                         *)
(* Grain of atomicity.  A step is a critical section of one of the two     *)
(* conditions, or the change of _enabled between two of them.              *)
(***************************************************************************)
EXTENDS Naturals, FiniteSets

CONSTANTS
  Regions,    \* the `with monitoring()` statements
  Callers,    \* users of install() and uninstall()
  Nobody,     \* no actor
  MaxCalls,   \* bound: explicit calls in one behaviour
  Interrupts  \* may a BaseException, say KeyboardInterrupt, leave uninstall()

ASSUME ActorAssumption ==
  /\ Regions \intersect Callers = {}
  /\ Nobody \notin Regions \union Callers
  /\ IsFiniteSet(Regions)
ASSUME BoundAssumption == MaxCalls \in Nat
ASSUME ProgramAssumption == Interrupts \in BOOLEAN

Actors == Regions \union Callers
PC == {"idle", "enter", "install", "installing", "enabling", "entered",
       "inside", "failed", "uninstall", "uninstalling", "done"}

VARIABLES
  enabled,     \* enabled of the process's monitor
  runtime,     \* the actor that owns _runtime_transition, or Nobody
  count,       \* _monitoring_region_count
  owns,        \* _monitoring_regions_own_installation
  changing,    \* _monitoring_region_transition
  pc, first, inactive,  \* locals: first_region, began_inactive
  calls,       \* bound: explicit calls so far
  before,      \* history: an installation preceded everything modelled
  creator,     \* history: who enabled monitoring, Nobody for `before`
  disturbed    \* history: a caller enabled or disabled monitoring while a
               \* region was entering, inside or leaving, or an uninstall()
               \* was interrupted, or what that left

regions == <<count, owns, changing>>
locals  == <<pc, first, inactive>>
history == <<before, creator, disturbed>>
vars == <<enabled, runtime, regions, locals, calls, history>>

Goto(a, label) == pc' = [pc EXCEPT ![a] = label]
At(a, label) == pc[a] = label

\* Every variable has its type.
TypeOK ==
  /\ enabled \in BOOLEAN /\ owns \in BOOLEAN /\ changing \in BOOLEAN
  /\ runtime \in Actors \union {Nobody}
  /\ count \in Nat
  /\ pc \in [Actors -> PC]
  /\ first \in [Actors -> BOOLEAN] /\ inactive \in [Actors -> BOOLEAN]
  /\ calls \in 0..MaxCalls
  /\ before \in BOOLEAN /\ disturbed \in BOOLEAN
  /\ creator \in Actors \union {Nobody}

Init ==
  /\ before \in BOOLEAN /\ enabled = before
  /\ runtime = Nobody
  /\ count = 0 /\ owns = FALSE /\ changing = FALSE
  /\ pc = [a \in Actors |-> "idle"]
  /\ first = [a \in Actors |-> FALSE]
  /\ inactive = [a \in Actors |-> FALSE]
  /\ calls = 0 /\ creator = Nobody /\ disturbed = FALSE

\* Some region relies on monitoring, or is about to.
Busy == count > 0 \/ changing
LeftOver == enabled /\ creator \in Regions

(***************************************************************************)
(* install() and uninstall(), by a region or a caller.                     *)
(***************************************************************************)
Reserve(a, from, to) ==
  /\ At(a, from) /\ runtime = Nobody
  /\ runtime' = a
  /\ Goto(a, to)
  /\ UNCHANGED <<enabled, regions, first, inactive, calls, history>>

InstallReserve(a) == Reserve(a, "install", "installing")
UninstallReserve(a) == Reserve(a, "uninstall", "uninstalling")

\* Monitor._install raises the flag first.
InstallEnable(a) ==
  /\ At(a, "installing")
  /\ enabled' = TRUE
  /\ creator' = IF enabled THEN creator ELSE a
  /\ disturbed' = (disturbed \/ (~enabled /\ a \in Callers /\ Busy))
  /\ Goto(a, "enabling")
  /\ UNCHANGED <<runtime, regions, first, inactive, calls, before>>

\* Where the caller of install() goes on.
AfterInstall(a) ==
  IF a \in Callers THEN "idle" ELSE IF first[a] THEN "entered" ELSE "inside"

InstallReturn(a) ==
  /\ At(a, "enabling")
  /\ runtime' = Nobody
  /\ Goto(a, AfterInstall(a))
  /\ UNCHANGED <<enabled, regions, first, inactive, calls, history>>

MRaiseEnters(a) ==
  /\ At(a, "installing") \/ At(a, "enabling")
  /\ runtime' = Nobody
  /\ Goto(a, AfterInstall(a))
  /\ UNCHANGED <<enabled, regions, first, inactive, calls, history>>

\* Refused settings raise before the flag, an interrupt may come after it.
InstallRaise(a) ==
  /\ At(a, "installing") \/ At(a, "enabling")
  /\ runtime' = Nobody
  /\ Goto(a, IF a \in Callers THEN "idle" ELSE "failed")
  /\ UNCHANGED <<enabled, regions, first, inactive, calls, history>>

\* The handler and the `finally` around a region's uninstall() end its
\* transition; a region that never came in (first) had no ownership to drop.
MLeaveTransition(a) ==
  /\ At(a, "uninstalling")
  /\ enabled' = FALSE /\ runtime' = Nobody
  /\ owns' = (owns /\ a \in Callers)
  /\ disturbed' = (disturbed \/ (enabled /\ a \in Callers /\ Busy))
  /\ Goto(a, IF a \in Callers THEN "idle" ELSE "done")
  /\ UNCHANGED <<count, changing, first, inactive, calls, before, creator>>

UninstallReturn(a) ==
  /\ At(a, "uninstalling")
  /\ enabled' = FALSE /\ runtime' = Nobody
  /\ IF a \in Callers
       THEN /\ disturbed' = (disturbed \/ (enabled /\ Busy))
            /\ Goto(a, "idle")
            /\ UNCHANGED regions
       ELSE /\ owns' = (owns /\ first[a]) /\ changing' = FALSE
            /\ Goto(a, "done")
            /\ UNCHANGED <<count, disturbed>>
  /\ UNCHANGED <<first, inactive, calls, before, creator>>

\* uninstall() is interrupted before or after it cleared the flag.  The
\* failure handler of monitoring() suppresses only Exception, so it does not
\* get to ending its transition; the `finally` of the release does.
UninstallInterrupted(a) ==
  /\ At(a, "uninstalling") /\ Interrupts
  /\ enabled' \in {enabled, FALSE} /\ runtime' = Nobody
  /\ disturbed' = TRUE
  /\ IF a \in Callers
       THEN Goto(a, "idle") /\ UNCHANGED <<owns, changing>>
       ELSE /\ Goto(a, "done")
            /\ owns' = (owns /\ first[a])
            /\ changing' = (changing /\ first[a])
  /\ UNCHANGED <<count, first, inactive, calls, before, creator>>

(***************************************************************************)
(* monitoring(): entry.                                                    *)
(***************************************************************************)
Begin(r) ==
  /\ At(r, "idle")
  /\ Goto(r, "enter")
  /\ UNCHANGED <<enabled, runtime, regions, first, inactive, calls, history>>

MForgetInactive(r) ==
  /\ At(r, "enter") /\ ~changing /\ count = 0
  /\ changing' = TRUE
  /\ first' = [first EXCEPT ![r] = TRUE]
  /\ inactive' = [inactive EXCEPT ![r] = TRUE]
  /\ disturbed' = (disturbed /\ LeftOver)
  /\ Goto(r, "install")
  /\ UNCHANGED <<enabled, runtime, count, owns, calls, before, creator>>

EnterFirst(r) ==
  /\ At(r, "enter") /\ ~changing /\ count = 0
  /\ changing' = TRUE
  /\ first' = [first EXCEPT ![r] = TRUE]
  /\ inactive' = [inactive EXCEPT ![r] = ~enabled]
  /\ disturbed' = (disturbed /\ LeftOver)
  /\ Goto(r, "install")
  /\ UNCHANGED <<enabled, runtime, count, owns, calls, before, creator>>

EnterNested(r) ==
  /\ At(r, "enter") /\ ~changing /\ count > 0
  /\ count' = count + 1
  /\ Goto(r, "install")
  /\ UNCHANGED <<enabled, runtime, owns, changing, first, inactive, calls,
                 history>>

\* The first region is installed.
EnterDone(r) ==
  /\ At(r, "entered")
  /\ owns' = inactive[r] /\ count' = 1 /\ changing' = FALSE
  /\ first' = [first EXCEPT ![r] = FALSE]
  /\ Goto(r, "inside")
  /\ UNCHANGED <<enabled, runtime, inactive, calls, history>>

\* The first region's install() raised: take back what it enabled.
EnterFailed(r) ==
  /\ At(r, "failed") /\ first[r]
  /\ IF inactive[r]
       THEN Goto(r, "uninstall") /\ UNCHANGED changing
       ELSE Goto(r, "done") /\ changing' = FALSE
  /\ UNCHANGED <<enabled, runtime, count, owns, first, inactive, calls,
                 history>>

(***************************************************************************)
(* _release_monitoring_region, at the end of the statement's body, or      *)
(* when the install() of a later region raised.                            *)
(***************************************************************************)
MReleaseEarly(r) ==
  /\ At(r, "inside") \/ (At(r, "failed") /\ ~first[r])
  /\ count' = count - 1
  /\ IF count' <= 1 /\ owns
       THEN changing' = TRUE /\ owns' = owns /\ Goto(r, "uninstall")
       ELSE /\ changing' = changing /\ owns' = (owns /\ count' # 0)
            /\ Goto(r, "done")
  /\ UNCHANGED <<enabled, runtime, first, inactive, calls, history>>

MReleaseNever(r) ==
  /\ At(r, "inside") \/ (At(r, "failed") /\ ~first[r])
  /\ count' = count - 1
  /\ owns' = (owns /\ count' # 0) /\ changing' = changing
  /\ Goto(r, "done")
  /\ UNCHANGED <<enabled, runtime, first, inactive, calls, history>>

Release(r) ==
  /\ At(r, "inside") \/ (At(r, "failed") /\ ~first[r])
  /\ count' = count - 1
  /\ IF count' = 0 /\ owns
       THEN changing' = TRUE /\ owns' = owns /\ Goto(r, "uninstall")
       ELSE /\ changing' = changing /\ owns' = (owns /\ count' # 0)
            /\ Goto(r, "done")
  /\ UNCHANGED <<enabled, runtime, first, inactive, calls, history>>

(***************************************************************************)
(* Explicit calls.                                                         *)
(***************************************************************************)
Call(c, label) ==
  /\ At(c, "idle") /\ calls < MaxCalls
  /\ calls' = calls + 1
  /\ Goto(c, label)
  /\ UNCHANGED <<enabled, runtime, regions, first, inactive, history>>

CallInstall(c) == Call(c, "install")
CallUninstall(c) == Call(c, "uninstall")

\* What an actor does without waiting for the program.
Proceed(a) ==
  \/ InstallReserve(a) \/ InstallEnable(a)
  \/ InstallReturn(a) \/ InstallRaise(a)
  \/ UninstallReserve(a) \/ UninstallReturn(a) \/ UninstallInterrupted(a)
  \/ EnterFirst(a) \/ EnterNested(a) \/ EnterDone(a) \/ EnterFailed(a)
  \/ (At(a, "failed") /\ Release(a))

Next ==
  \/ \E a \in Actors : Proceed(a)
  \/ \E r \in Regions : Begin(r) \/ (At(r, "inside") /\ Release(r))
  \/ \E c \in Callers : CallInstall(c) \/ CallUninstall(c)

Spec == Init /\ [][Next]_vars

\* Every actor goes on by itself, but the body of a region may run for ever.
FairSpec == Spec /\ \A a \in Actors : WF_vars(Proceed(a))

(***************************************************************************)
(* Properties.                                                             *)
(***************************************************************************)
\* As long as a region is being executed monitoring is on, whichever region
\* came first and in whatever order the others leave or fail to enter,
\* unless the program itself called uninstall() meanwhile.
MonitoredInside ==
  (\E r \in Regions : At(r, "inside")) /\ ~disturbed => enabled

\* A region never removes an installation that a caller made before the
\* first region began.
EarlierInstallationStays ==
  [][\A r \in Regions : UninstallReturn(r) /\ enabled /\ ~disturbed =>
       creator \in Regions]_vars

\* When the last region has gone, or could not enter, no installation that a
\* region made is left.
NothingLeftBehind ==
  ~Busy /\ enabled /\ ~disturbed => creator \notin Regions

\* A region that starts to enter comes in or gives up: no order of entries,
\* failures and exits leaves _monitoring_region_transition set, unless an
\* uninstall() is interrupted (Interrupts).
EventuallyEntered ==
  \A r \in Regions : At(r, "enter") ~> At(r, "inside") \/ At(r, "done")

\* Without callers the regions implement the abstract lease.  A region that
\* counts holds one, as does one that has enabled monitoring or has still to
\* disable it.
Holds(r) ==
  IF first[r]
    THEN \/ pc[r] \in {"enabling", "entered"}
         \/ pc[r] \in {"failed", "uninstall", "uninstalling"} /\ inactive[r] /\ enabled
    ELSE pc[r] \notin {"idle", "enter", "done"}
Lease == INSTANCE InstallationLease WITH
           holders <- {r \in Regions : Holds(r)}, active <- enabled
LeaseSpec == Lease!Spec

(***************************************************************************)
(* The inductive invariant behind the safety properties.                   *)
(***************************************************************************)
\* A region that has come in, or is coming in after the first one.
Counting(r) ==
  ~first[r] /\ pc[r] \in {"install", "installing", "enabling", "failed", "inside"}

\* A region that owns _monitoring_region_transition: it comes in as the first
\* one, or disables monitoring.
Changer(r) ==
  \/ first[r] /\ pc[r] \in {"install", "installing", "enabling", "entered", "failed"}
  \/ pc[r] \in {"uninstall", "uninstalling"}

CallersOnlyCall ==
  \A c \in Callers :
    /\ ~first[c]
    /\ pc[c] \in {"idle", "install", "installing", "enabling", "uninstall",
                 "uninstalling"}

EntryOrder ==
  \A r \in Regions :
    /\ pc[r] \in {"idle", "enter", "inside"} => ~first[r]
    /\ pc[r] = "entered" => first[r]
    /\ pc[r] \in {"uninstall", "uninstalling"} /\ first[r] => inactive[r]

CountIsExact == count = Cardinality({r \in Regions : Counting(r)})

OneTransition ==
  /\ changing => count = 0
  /\ \A r, s \in Regions : Changer(r) => changing /\ (Changer(s) => r = s)

\* The first region has monitoring on, found or made, before it counts.
MonitoredWhileBusy ==
  ~disturbed =>
    /\ count > 0 => enabled
    /\ \A r \in Regions :
         /\ first[r]
         /\ \/ pc[r] \in {"enabling", "entered"}
            \/ pc[r] \in {"install", "installing", "failed"} /\ ~inactive[r]
         => enabled

\* An installation is a region's if and only if somebody will remove it.
RemovedByOwner ==
  enabled /\ ~disturbed =>
    (creator \in Regions <=>
       \/ count > 0 /\ owns
       \/ \E r \in Regions : Changer(r) /\ (first[r] => inactive[r]))

\* The count, the ownership and the transition of the regions agree with what
\* the regions are doing, whatever order they and the callers act in: what
\* MonitoredInside, NothingLeftBehind and EarlierInstallationStays rest on,
\* and inductive.
RegionInv ==
  /\ TypeOK
  /\ CallersOnlyCall /\ EntryOrder /\ CountIsExact /\ OneTransition
  /\ MonitoredWhileBusy /\ RemovedByOwner
=============================================================================
