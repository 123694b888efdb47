-------------------------- MODULE MonitorLifecycle --------------------------
(***************************************************************************)
(* The life of a Monitor: installation, uninstallation, and the audit hook *)
(* that wraps again an import list the program has replaced, while other   *)
(* threads change and replace those lists at any moment.                   *)
(*                                                                         *)
(* Code: _Monitor (_monitor.py).  The wrappers of finders are the subject  *)
(* of FinderShadowing; here only the access to the finders matters,        *)
(* because it runs foreign code.                                           *)
(*                                                                         *)
(* An import list is an object: sys.meta_path, sys.path_hooks and sys.path *)
(* each refer to one, a list has contents, and some lists are the          *)
(* instrumented lists of this package.  sys.meta_path is list 1.           *)
(*                                                                         *)
(* Operators whose name starts with M are faults the checks are measured   *)
(* with: each stands for a plausible mistake in the definition below it.   *)
(*                                                                         *)
(* Grain of atomicity.  A step reads or writes one import list reference,  *)
(* or is a critical section of the lifecycle lock that runs no foreign     *)
(* code and reads no import list twice.  Between two steps any thread of   *)
(* the program may change the lists: they have no lock.                    *)
(***************************************************************************)
EXTENDS Naturals, FiniteSets

CONSTANTS
  Threads,         \* threads of the observed program
  NumKinds,        \* 1: sys.meta_path only; 2: and path_hooks; 3: and path
  Requests,        \* the MonitoringRequests of the program
  Items,           \* finders and hooks the program may add to a list
  Nobody,          \* no thread
  MaxInstalls,     \* bound: calls of _install in one behaviour
  MaxChanges,      \* bound: changes the program makes to the import lists
  ForeignImports,  \* does the access to a finder import a module
  Keeps            \* kinds whose list the program keeps to put it back later

ASSUME KindsAssumption == NumKinds \in 1..3
ASSUME RequestAssumption ==
  Requests \subseteq [lists : SUBSET (1..NumKinds), audit : BOOLEAN]
ASSUME NobodyAssumption == Nobody \notin Threads
ASSUME BoundAssumption == MaxInstalls \in Nat /\ MaxChanges \in Nat
ASSUME ProgramAssumption ==
  ForeignImports \in BOOLEAN /\ Keeps \subseteq 1..NumKinds

Kinds    == 1..NumKinds
MetaPath == 1
NoRequest == [lists |-> {}, audit |-> FALSE]
\* Bound: list objects of a kind alive at once: the live, the wrapped and the
\* kept one, a copy not yet published, and the next one.
Lists    == 1..5
NoList   == 0
PC == {"idle", "copy", "inspect", "import", "commit", "enable", "expose",
       "installEnd", "check", "plain", "unwrap",
       "suspect", "recover", "replace", "swap"}

VARIABLES
  enabled,     \* _enabled
  audited,     \* _import_audit_enabled
  on,          \* _meta_path_enabled, _path_hooks_enabled, _sys_path_enabled
  wrapped,     \* _instrumented, ... and the `installed` of their leases
  transition,  \* the thread that owns _transition_generation, or Nobody
  lock,        \* the thread that holds _reinstall_lock, or Nobody
  installs,    \* _lifecycle_generation
  configured,  \* _active_capture of _runtime.py: the last installed request
  request,     \* the MonitoringRequest of the transition
  live,        \* sys.meta_path, sys.path_hooks, sys.path
  kept,        \* a list of that kind the program has a reference to
  contents,    \* what a list holds
  ours,        \* the instrumented lists
  moduleLock,  \* the thread that executes the module finders import
  pc, kind, draft,  \* locals of a thread
  assigner,    \* history: who assigned live[k] last
  overlap,     \* history: kinds the program changed since a thread read them
  changes      \* bound: changes the program has made

asked   == <<installs, request, configured>>
monitor == <<enabled, audited, on, wrapped, transition, lock, asked>>
memory  == <<live, kept, contents, ours>>
locals  == <<pc, kind, draft>>
history == <<assigner, overlap>>
vars == <<monitor, memory, moduleLock, locals, history, changes>>

Goto(t, label) == pc' = [pc EXCEPT ![t] = label]
At(t, label) == pc[t] = label

\* Every variable has its type; in particular a list is never unset, and at
\* most five list objects of a kind are alive.
TypeOK ==
  /\ enabled \in BOOLEAN /\ audited \in BOOLEAN
  /\ on \in [Kinds -> BOOLEAN]
  /\ wrapped \in [Kinds -> Lists \union {NoList}]
  /\ transition \in Threads \union {Nobody}
  /\ lock \in Threads \union {Nobody}
  /\ moduleLock \in Threads \union {Nobody}
  /\ installs \in 0..MaxInstalls
  /\ configured \in Requests \union {NoRequest}
  /\ request \in Requests \union {NoRequest}
  /\ live \in [Kinds -> Lists]
  /\ kept \in [Kinds -> Lists \union {NoList}]
  /\ contents \in [Kinds -> [Lists -> SUBSET Items]]
  /\ ours \in [Kinds -> SUBSET Lists]
  /\ pc \in [Threads -> PC]
  /\ kind \in [Threads -> 1..(NumKinds + 1)]
  /\ draft \in [Threads -> Lists \union {NoList}]
  /\ assigner \in [Kinds -> {"monitor", "program"}]
  /\ overlap \subseteq Kinds
  /\ changes \in 0..MaxChanges

Init ==
  /\ enabled = FALSE /\ audited = FALSE
  /\ on = [k \in Kinds |-> FALSE]
  /\ wrapped = [k \in Kinds |-> NoList]
  /\ transition = Nobody /\ lock = Nobody /\ moduleLock = Nobody
  /\ installs = 0 /\ request = NoRequest /\ configured = NoRequest
  /\ live = [k \in Kinds |-> 1]
  /\ kept = [k \in Kinds |-> NoList]
  /\ contents = [k \in Kinds |-> [l \in Lists |-> {}]]
  /\ ours = [k \in Kinds |-> {}]
  /\ pc = [t \in Threads |-> "idle"]
  /\ kind = [t \in Threads |-> MetaPath]
  /\ draft = [t \in Threads |-> NoList]
  /\ assigner = [k \in Kinds |-> "program"] /\ overlap = {}
  /\ changes = 0

(***************************************************************************)
(* List objects.  An object nothing refers to is free for the next list.   *)
(***************************************************************************)
InUse(k) == {live[k], wrapped[k], kept[k]}
              \union {draft[t] : t \in {u \in Threads : kind[u] = k}}
FreeList(k) ==
  CHOOSE l \in Lists \ InUse(k) : \A m \in Lists \ InUse(k) : l <= m

\* A new list of kind k with these items; `mine` when it is an instrumented one.
Create(k, items, mine) ==
  /\ contents' = [contents EXCEPT ![k] =
       [l \in Lists |-> IF l = FreeList(k) THEN items
                        ELSE IF l \in InUse(k) THEN @[l] ELSE {}]]
  /\ ours' = [ours EXCEPT ![k] =
       (@ \intersect InUse(k)) \union (IF mine THEN {FreeList(k)} ELSE {})]

\* Thread t copies list l of kind k into a list of its own.
Draft(t, k, l, mine) ==
  /\ Create(k, contents[k][l], mine)
  /\ draft' = [draft EXCEPT ![t] = FreeList(k)]
  /\ overlap' = overlap \ {k}
  /\ UNCHANGED <<live, kept>>

\* Thread t stores its draft in sys.<k>.
Publish(t, k) ==
  /\ live' = [live EXCEPT ![k] = draft[t]]
  /\ assigner' = [assigner EXCEPT ![k] = "monitor"]
  /\ draft' = [draft EXCEPT ![t] = NoList]
  /\ UNCHANGED <<kept, contents, ours, overlap>>

\* Foreign code that a finder's attribute access runs may import a module,
\* which waits for the thread that executes it.
ImportPossible(t) == moduleLock \in {Nobody, t}

(***************************************************************************)
(* _install: the transition is reserved under the lifecycle lock and the   *)
(* work is done outside it.  install() of _runtime.py refuses a request    *)
(* that differs from the last installed one while monitoring is enabled.   *)
(***************************************************************************)
InstallBegin(t, r) ==
  /\ At(t, "idle") /\ lock = Nobody /\ transition = Nobody
  /\ installs < MaxInstalls
  /\ enabled => r = configured
  /\ installs' = installs + 1
  /\ transition' = t /\ request' = r
  /\ enabled' = TRUE
  /\ IF enabled
       THEN kind' = [kind EXCEPT ![t] = MetaPath + 1] /\ Goto(t, "enable")
       ELSE kind' = [kind EXCEPT ![t] = MetaPath] /\ Goto(t, "copy")
  /\ UNCHANGED <<audited, on, wrapped, lock, configured, memory, moduleLock,
                 draft, history>>

\* _InstrumentedMetaPath(current, self), before any finder is looked at.
InstallCopy(t) ==
  /\ At(t, "copy")
  /\ IF MetaPath \in request.lists
       THEN Draft(t, MetaPath, live[MetaPath], TRUE)
       ELSE UNCHANGED <<memory, draft, overlap>>
  /\ Goto(t, "inspect")
  /\ UNCHANGED <<monitor, moduleLock, kind, assigner>>

\* _activate_core_monitor commits under the lifecycle lock.
InstallCommit(t) ==
  /\ At(t, "commit") /\ lock = Nobody
  /\ audited' = request.audit
  /\ on' = [on EXCEPT ![MetaPath] = MetaPath \in request.lists]
  /\ IF MetaPath \in request.lists
       THEN /\ wrapped' = [wrapped EXCEPT ![MetaPath] = draft[t]]
            /\ Publish(t, MetaPath)
       ELSE UNCHANGED <<wrapped, memory, draft, history>>
  /\ kind' = [kind EXCEPT ![t] = MetaPath + 1]
  /\ Goto(t, "enable")
  /\ UNCHANGED <<enabled, transition, lock, asked,
                 moduleLock>>

\* _enable_path_hooks, _enable_sys_path: copy the list, note the copy as the
\* installed one, raise the flag, and only then publish it.
EnableCopy(t) ==
  /\ At(t, "enable") /\ kind[t] \in request.lists /\ ~on[kind[t]]
  /\ Draft(t, kind[t], live[kind[t]], TRUE)
  /\ wrapped' = [wrapped EXCEPT ![kind[t]] = FreeList(kind[t])]
  /\ on' = [on EXCEPT ![kind[t]] = TRUE]
  /\ Goto(t, "expose")
  /\ UNCHANGED <<enabled, audited, transition, lock, asked,
                 moduleLock, kind, assigner>>

EnableExpose(t) ==
  /\ At(t, "expose")
  /\ Publish(t, kind[t])
  /\ kind' = [kind EXCEPT ![t] = @ + 1]
  /\ Goto(t, "enable")
  /\ UNCHANGED <<monitor, moduleLock>>

EnableSkip(t) ==
  /\ At(t, "enable") /\ kind[t] \in Kinds
  /\ kind[t] \notin request.lists \/ on[kind[t]]
  /\ kind' = [kind EXCEPT ![t] = @ + 1]
  /\ UNCHANGED <<monitor, memory, moduleLock, pc, draft, history>>

\* The `finally` of _install; install() notes the request when _install
\* returned normally.
InstallEnd(t) ==
  /\ \/ At(t, "enable") /\ kind[t] = NumKinds + 1
     \/ At(t, "installEnd")
  /\ lock = Nobody
  /\ transition' = Nobody /\ request' = NoRequest
  /\ configured' = IF At(t, "enable") THEN request ELSE configured
  /\ kind' = [kind EXCEPT ![t] = MetaPath]
  /\ draft' = [draft EXCEPT ![t] = NoList]
  /\ Goto(t, "idle")
  /\ UNCHANGED <<enabled, audited, on, wrapped, lock, installs, memory,
                 moduleLock, history>>

(***************************************************************************)
(* Access to the finders of the copied list.  An installation does this    *)
(* without the lifecycle lock, a recovery (lock = t) holds it.             *)
(***************************************************************************)
Inspected(t) ==
  /\ Goto(t, IF lock = t THEN "swap" ELSE "commit")
  /\ UNCHANGED <<monitor, memory, moduleLock, kind, draft, history>>

Inspect(t) == At(t, "inspect") /\ Inspected(t)

InspectImports(t) ==
  /\ At(t, "inspect") /\ ForeignImports
  /\ Goto(t, "import")
  /\ UNCHANGED <<monitor, memory, moduleLock, kind, draft, history>>

ImportReturns(t) == At(t, "import") /\ ImportPossible(t) /\ Inspected(t)

\* A BaseException, say KeyboardInterrupt, passes every `except Exception`.
MCommitAnyway(t) ==
  /\ At(t, "inspect")
  /\ draft' = [draft EXCEPT ![t] = NoList]
  /\ Goto(t, IF lock = t THEN "swap" ELSE "commit")
  /\ UNCHANGED <<monitor, memory, moduleLock, kind, history>>

InspectRaises(t) ==
  /\ At(t, "inspect")
  /\ draft' = [draft EXCEPT ![t] = NoList]
  /\ IF lock = t THEN lock' = Nobody /\ Goto(t, "idle")
                 ELSE lock' = lock /\ Goto(t, "installEnd")
  /\ UNCHANGED <<enabled, audited, on, wrapped, transition, asked,
                 memory, moduleLock, kind, history>>

(***************************************************************************)
(* _uninstall holds the lifecycle lock from beginning to end.              *)
(***************************************************************************)
UninstallBegin(t) ==
  /\ At(t, "idle") /\ lock = Nobody /\ transition = Nobody /\ enabled
  /\ lock' = t /\ enabled' = FALSE
  /\ kind' = [kind EXCEPT ![t] = MetaPath]
  /\ Goto(t, "check")
  /\ UNCHANGED <<audited, on, wrapped, transition, asked,
                 memory, moduleLock, draft, history>>

\* The monitor lets go of the list of kind k.  _meta_path_enabled stays up
\* until the end of _uninstall.
Forget(k) ==
  /\ wrapped' = [wrapped EXCEPT ![k] = NoList]
  /\ on' = [on EXCEPT ![k] = @ /\ k = MetaPath]

MOwnedBlindly(k) == wrapped[k] # NoList

Owned(k) == wrapped[k] # NoList /\ live[k] = wrapped[k]

UninstallCheck(t) ==
  /\ At(t, "check") /\ kind[t] \in Kinds
  /\ IF Owned(kind[t])
       THEN /\ Goto(t, "plain")
            /\ UNCHANGED <<wrapped, on, kind>>
       ELSE /\ Forget(kind[t])
            /\ kind' = [kind EXCEPT ![t] = @ + 1]
            /\ UNCHANGED pc
  /\ overlap' = overlap \ {kind[t]}
  /\ UNCHANGED <<enabled, audited, transition, lock, asked,
                 memory, moduleLock, draft, assigner>>

\* list(current) for sys.meta_path; the two others are read again.
UninstallCopy(t) ==
  /\ At(t, "plain")
  /\ LET k == kind[t]
         source == IF k = MetaPath THEN wrapped[k] ELSE live[k]
     IN  /\ Create(k, contents[k][source], FALSE)
         /\ draft' = [draft EXCEPT ![t] = FreeList(k)]
  /\ Goto(t, "unwrap")
  /\ UNCHANGED <<monitor, live, kept, moduleLock, kind, history>>

UninstallPublish(t) ==
  /\ At(t, "unwrap")
  /\ Publish(t, kind[t])
  /\ Forget(kind[t])
  /\ kind' = [kind EXCEPT ![t] = @ + 1]
  /\ Goto(t, "check")
  /\ UNCHANGED <<enabled, audited, transition, lock, asked,
                 moduleLock>>

UninstallEnd(t) ==
  /\ At(t, "check") /\ kind[t] = NumKinds + 1
  /\ audited' = FALSE
  /\ on' = [on EXCEPT ![MetaPath] = FALSE]
  /\ lock' = Nobody
  /\ kind' = [kind EXCEPT ![t] = MetaPath]
  /\ Goto(t, "idle")
  /\ UNCHANGED <<enabled, wrapped, transition, asked, memory,
                 moduleLock, draft, history>>

(***************************************************************************)
(* The audit hook compares the lists without a lock, and recovers with the *)
(* lifecycle lock after it has looked again.                               *)
(***************************************************************************)
Replaced(k) == on[k] /\ live[k] # wrapped[k]

AuditSuspects(t) ==
  /\ At(t, "idle") /\ enabled /\ audited
  /\ \E k \in Kinds : Replaced(k)
  /\ Goto(t, "suspect")
  /\ UNCHANGED <<monitor, memory, moduleLock, kind, draft, history>>

\* _on_import_audit leaves a transition alone.
AuditDecides(t) ==
  /\ At(t, "suspect")
  /\ Goto(t, IF transition # Nobody THEN "idle" ELSE "recover")
  /\ UNCHANGED <<monitor, memory, moduleLock, kind, draft, history>>

MRecoverUnlocked(t) ==
  /\ At(t, "recover")
  /\ IF enabled /\ transition = Nobody
       THEN /\ Goto(t, "replace")
            /\ kind' = [kind EXCEPT ![t] = MetaPath]
       ELSE Goto(t, "idle") /\ UNCHANGED kind
  /\ UNCHANGED <<monitor, memory, moduleLock, draft, history>>

RecoverBegin(t) ==
  /\ At(t, "recover") /\ lock = Nobody
  /\ IF enabled /\ transition = Nobody
       THEN /\ lock' = t /\ Goto(t, "replace")
            /\ kind' = [kind EXCEPT ![t] = MetaPath]
       ELSE lock' = lock /\ Goto(t, "idle") /\ UNCHANGED kind
  /\ UNCHANGED <<enabled, audited, on, wrapped, transition, asked,
                 memory, moduleLock, draft, history>>

MRecoverAll(k) == on[k] /\ wrapped[k] # NoList

MustRecover(k) == Replaced(k) /\ wrapped[k] # NoList

MRecoverOldContents(t) ==
  /\ At(t, "replace") /\ kind[t] \in Kinds /\ MustRecover(kind[t])
  /\ Draft(t, kind[t], wrapped[kind[t]], TRUE)
  /\ Goto(t, IF kind[t] = MetaPath THEN "inspect" ELSE "swap")
  /\ UNCHANGED <<monitor, moduleLock, kind, assigner>>

RecoverCopy(t) ==
  /\ At(t, "replace") /\ kind[t] \in Kinds /\ MustRecover(kind[t])
  /\ Draft(t, kind[t], live[kind[t]], TRUE)
  /\ Goto(t, IF kind[t] = MetaPath THEN "inspect" ELSE "swap")
  /\ UNCHANGED <<monitor, moduleLock, kind, assigner>>

RecoverSkip(t) ==
  /\ At(t, "replace") /\ kind[t] \in Kinds /\ ~MustRecover(kind[t])
  /\ kind' = [kind EXCEPT ![t] = @ + 1]
  /\ UNCHANGED <<monitor, memory, moduleLock, pc, draft, history>>

MKeepOldLease(t) ==
  /\ At(t, "swap")
  /\ Publish(t, kind[t])
  /\ kind' = [kind EXCEPT ![t] = @ + 1]
  /\ Goto(t, "replace")
  /\ UNCHANGED <<monitor, moduleLock>>

RecoverPublish(t) ==
  /\ At(t, "swap")
  /\ wrapped' = [wrapped EXCEPT ![kind[t]] = draft[t]]
  /\ Publish(t, kind[t])
  /\ kind' = [kind EXCEPT ![t] = @ + 1]
  /\ Goto(t, "replace")
  /\ UNCHANGED <<enabled, audited, on, transition, lock, asked,
                 moduleLock>>

RecoverEnd(t) ==
  /\ At(t, "replace") /\ kind[t] = NumKinds + 1
  /\ lock' = Nobody
  /\ kind' = [kind EXCEPT ![t] = MetaPath]
  /\ Goto(t, "idle")
  /\ UNCHANGED <<enabled, audited, on, wrapped, transition, asked,
                 memory, moduleLock, draft, history>>

(***************************************************************************)
(* The program: it may do any of this at any moment, in any thread, and    *)
(* also inside the foreign code an installation or a recovery runs.        *)
(***************************************************************************)
Changed(k) ==
  /\ changes < MaxChanges
  /\ changes' = changes + 1
  /\ overlap' = overlap \union {k}

Append(k, i) ==
  /\ i \notin contents[k][live[k]]
  /\ contents' = [contents EXCEPT ![k][live[k]] = @ \union {i}]
  /\ Changed(k)
  /\ UNCHANGED <<monitor, live, kept, ours, moduleLock, locals, assigner>>

\* sys.<k> = [...], a list built from some of the items.
Reassign(k, items) ==
  /\ Create(k, items, FALSE)
  /\ live' = [live EXCEPT ![k] = FreeList(k)]
  /\ Changed(k)
  /\ assigner' = [assigner EXCEPT ![k] = "program"]
  /\ UNCHANGED <<monitor, kept, moduleLock, locals>>

\* saved = sys.<k>, and later sys.<k> = saved.
Save(k) ==
  /\ k \in Keeps /\ kept[k] # live[k]
  /\ kept' = [kept EXCEPT ![k] = live[k]]
  /\ UNCHANGED <<monitor, live, contents, ours, moduleLock, locals, history>>

PutBack(k) ==
  /\ kept[k] \notin {NoList, live[k]}
  /\ live' = [live EXCEPT ![k] = kept[k]]
  /\ Changed(k)
  /\ assigner' = [assigner EXCEPT ![k] = "program"]
  /\ UNCHANGED <<monitor, kept, contents, ours, moduleLock, locals>>

\* A thread executes the module that the finders import.
ModuleBegin(t) ==
  /\ ForeignImports /\ At(t, "idle") /\ moduleLock = Nobody
  /\ moduleLock' = t
  /\ UNCHANGED <<monitor, memory, locals, history>>

ModuleEnd(t) ==
  /\ At(t, "idle") /\ moduleLock = t
  /\ moduleLock' = Nobody
  /\ UNCHANGED <<monitor, memory, locals, history>>

ChangeLists ==
  \E k \in Kinds : \/ \E i \in Items : Append(k, i)
                   \/ \E items \in SUBSET Items : Reassign(k, items)
                   \/ PutBack(k)

\* What a thread does once it is inside the monitor, and imports that
\* find a replaced list.
Continue(t) ==
  \/ InstallCopy(t) \/ Inspect(t) \/ InspectImports(t) \/ ImportReturns(t)
  \/ InspectRaises(t) \/ InstallCommit(t) \/ EnableCopy(t) \/ EnableExpose(t)
  \/ EnableSkip(t) \/ InstallEnd(t)
  \/ UninstallCheck(t) \/ UninstallCopy(t) \/ UninstallPublish(t)
  \/ UninstallEnd(t)
  \/ AuditSuspects(t) \/ AuditDecides(t) \/ RecoverBegin(t) \/ RecoverCopy(t)
  \/ RecoverSkip(t) \/ RecoverPublish(t) \/ RecoverEnd(t)

Others ==
  \/ \E t \in Threads : \/ UninstallBegin(t) \/ ModuleBegin(t) \/ ModuleEnd(t)
                        \/ \E r \in Requests : InstallBegin(t, r)
  \/ \E k \in Kinds : Save(k)

Next ==
  \/ \E t \in Threads : Continue(t) /\ UNCHANGED changes
  \/ Others /\ UNCHANGED changes
  \/ ChangeLists

Spec == Init /\ [][Next]_vars

\* A running thread goes on, imports keep happening, and the access to a
\* finder is not interrupted every time.
FairSpec ==
  /\ Spec
  /\ \A t \in Threads : /\ WF_vars(Continue(t) /\ UNCHANGED changes)
                        /\ SF_vars(Inspect(t) /\ UNCHANGED changes)

(***************************************************************************)
(* Properties.                                                             *)
(***************************************************************************)
\* No installation and no uninstallation is under way.
Settled ==
  transition = Nobody /\ \A t \in Threads : pc[t] \notin {"check", "plain", "unwrap"}

(***************************************************************************)
(* What carries the properties below from step to step.                    *)
(***************************************************************************)
Outside   == {"idle", "suspect", "recover"}
Accesses  == {"inspect", "import"}
Installs  == {"copy", "commit", "enable", "expose", "installEnd"}
Unwraps   == {"check", "plain", "unwrap"}
Rewraps   == {"replace", "swap"}

\* The transition and the lifecycle lock exclude each other, and exactly the
\* thread that has one of them is at work: installing and recovering with
\* monitoring on, uninstalling with monitoring off.
WorkIsOwned ==
  /\ transition # Nobody => lock = Nobody /\ enabled
  /\ \A t \in Threads :
       /\ pc[t] \in Outside <=> t \notin {transition, lock}
       /\ pc[t] \in Installs => transition = t
       /\ pc[t] \in Unwraps => lock = t /\ ~enabled
       /\ pc[t] \in Rewraps => lock = t /\ enabled
       /\ pc[t] \in Accesses => enabled

\* The list kind a thread is at fits what it does.
KindFits ==
  \A t \in Threads :
    /\ pc[t] \in Outside \union Accesses \union {"copy", "commit", "installEnd"}
         => kind[t] = MetaPath
    /\ pc[t] \in {"plain", "unwrap", "expose", "swap"} => kind[t] \in Kinds

\* A thread has a copy exactly from making it to publishing it.
DraftFits ==
  \A t \in Threads :
    draft[t] # NoList <=>
      \/ pc[t] \in {"expose", "unwrap", "swap"}
      \/ pc[t] \in Accesses \union {"commit"}
           /\ (lock = t \/ MetaPath \in request.lists)

\* Until then nobody else refers to it, it is the kind of list it is to be,
\* and unless the program interferes it holds what the live list holds.
DraftIsPrivate ==
  \A t \in Threads : draft[t] # NoList =>
    /\ draft[t] \notin {live[kind[t]], kept[kind[t]]}
    /\ wrapped[kind[t]] = draft[t] <=> pc[t] = "expose"
    /\ draft[t] \in ours[kind[t]] <=> pc[t] # "unwrap"
    /\ kind[t] \notin overlap =>
         contents[kind[t]][draft[t]] = contents[kind[t]][live[kind[t]]]

\* The monitor holds no list, and knows it, when it is off and when it begins
\* to install.
NoneHeld == \A k \in Kinds : wrapped[k] = NoList /\ ~on[k]

NoneHeldAtFirst ==
  /\ ~enabled /\ lock = Nobody => NoneHeld
  /\ \A t \in Threads :
       transition = t /\ pc[t] \in Accesses \union {"copy", "commit"} => NoneHeld

\* In between it lets go of one list after the other.
LettingGo ==
  /\ \A k \in Kinds : wrapped[k] # NoList => on[k]
  /\ \A t \in Threads : pc[t] \in Unwraps =>
       \A k \in Kinds : k < kind[t] =>
         wrapped[k] = NoList /\ (k # MetaPath => ~on[k])

\* A list that the monitor put in place is the one it holds, or it is an
\* ordinary one and the monitor holds none, or not yet.
StoredIsHeld ==
  \A k \in Kinds : assigner[k] = "monitor" =>
    \/ live[k] = wrapped[k]
    \/ /\ live[k] \notin ours[k]
       /\ \/ wrapped[k] = NoList
          \/ \E t \in Threads : pc[t] = "expose" /\ kind[t] = k

\* A thread that recovers a list found it assigned by the program; one that
\* uninstalls found the monitor's, if no assignment came since.
FoundStillHolds ==
  \A t \in Threads :
    /\ lock = t /\ pc[t] \in Accesses \union {"swap"} =>
         assigner[kind[t]] = "program" /\ wrapped[kind[t]] # NoList
    /\ pc[t] \in {"plain", "unwrap"} =>
         /\ wrapped[kind[t]] # NoList
         /\ kind[t] \notin overlap => live[kind[t]] = wrapped[kind[t]]

\* Every variable has its type and the monitor accounts for every list it made
\* or found, in every interleaving of _install, _uninstall and the recovery.
LifecycleInv ==
  /\ TypeOK /\ WorkIsOwned /\ KindFits /\ DraftFits /\ DraftIsPrivate
  /\ NoneHeldAtFirst /\ LettingGo /\ StoredIsHeld /\ FoundStillHolds

(***************************************************************************)
(* And what follows from it.                                               *)
(***************************************************************************)
\* When monitoring is off, every import list is an ordinary list, unless the
\* program itself put one of the monitor's old lists back.
OrdinaryWhenOff ==
  Settled /\ ~enabled =>
    \A k \in Kinds : live[k] \in ours[k] => assigner[k] = "program"

\* Two threads never work on the import lists at once: one installs, or one
\* uninstalls or recovers.
OneWorker ==
  \A t, u \in Threads :
    pc[t] \notin {"idle", "suspect", "recover"}
      /\ pc[u] \notin {"idle", "suspect", "recover"} => t = u

\* An assignment to sys.<k> by the monitor.
Stored(k) == live'[k] # live[k] /\ assigner'[k] = "monitor"

\* The monitor never changes what an import list holds: the list it stores
\* has the contents of the list it replaces, unless the program changed that
\* list while the monitor made its copy.
ContentsKept ==
  [][\A k \in Kinds : Stored(k) /\ k \notin overlap =>
       contents'[k][live'[k]] = contents[k][live[k]]]_vars

\* While monitoring is on and settled, the monitor replaces a list only
\* because the program assigned it: it never takes its own half-done
\* installation for a reassignment, nor recovers twice.
RecoveryHasCause ==
  [][\A k \in Kinds : Stored(k) /\ enabled /\ transition = Nobody =>
       assigner[k] = "program"]_vars

\* A list the program put in place of the monitor's is left to the program
\* at uninstallation, unless the assignment came between test and store.
ProgramListsStay ==
  [][\A k \in Kinds : Stored(k) /\ ~enabled /\ k \notin overlap =>
       live[k] = wrapped[k]]_vars

\* While imports happen, a replaced list is wrapped again.
EventuallyWrapped ==
  \A k \in Kinds :
    enabled /\ audited /\ Replaced(k) ~> ~Replaced(k) \/ ~enabled

\* An import that finds a replaced list never waits for a recovery that
\* waits for the module this import is part of.
NoLockCycle ==
  ~\E t, u \in Threads :
     t # u /\ At(t, "recover") /\ moduleLock = t /\ lock = u /\ At(u, "import")

\* Thread t can go on only when u has given something up: the lifecycle lock,
\* which recovery takes, and _install to commit and to end its transition; or
\* the module it imports.
AwaitsInside(t, u) ==
  \/ /\ lock = u
     /\ \/ pc[t] \in {"recover", "commit", "installEnd"}
        \/ At(t, "enable") /\ kind[t] = NumKinds + 1
  \/ moduleLock = u /\ u # t /\ At(t, "import")

\* Outside the monitor t may also be about to call install() or uninstall(),
\* which wait for the end of a transition too, or to import that module.
Awaits(t, u) ==
  \/ AwaitsInside(t, u)
  \/ At(t, "idle") /\ (u \in {lock, transition} \/ (moduleLock = u /\ u # t))

\* Threads that wait for each other and for nobody else, all of them inside the
\* monitor or some of them outside.
DeadlockedInside(S) ==
  S # {} /\ \A t \in S : \E u \in S : AwaitsInside(t, u)
Deadlocked(S) == S # {} /\ \A t \in S : \E u \in S : Awaits(t, u)
=============================================================================
