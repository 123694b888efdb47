-------------------------- MODULE FinderShadowing --------------------------
(***************************************************************************)
(* Finder attribution: the protocol by which several threads put a         *)
(* find_spec wrapper in the instance dictionary of a finder while another  *)
(* thread uninstalls, or uninstalls and installs again.                    *)
(*                                                                         *)
(* Code: _FinderAttribution (_finder_attribution.py) and the parts of      *)
(* _Monitor that call it: installation, list mutation, recovery and        *)
(* uninstallation (_monitor.py).                                           *)
(*                                                                         *)
(* Operators whose name starts with M are faults the checks are measured   *)
(* with: each stands for a plausible mistake in the definition below it.   *)
(*                                                                         *)
(* Grain of atomicity.  A step is one critical section of _record_lock,    *)
(* or one access to state that lock does not protect: the _enabled flag    *)
(* (which _uninstall clears without the lock), the finder's instance       *)
(* dictionary, the copy of _patches that uninstall iterates.  The commit   *)
(* is two steps, because it reads _enabled and then stores its patch.      *)
(*                                                                         *)
(* Exceptions.  Looking find_spec up, reading the instance dictionary and  *)
(* assigning are foreign code, which may raise before or after its effect. *)
(* instrument() catches an Exception of the lookup and of the assignments; *)
(* everything else that foreign code raises leaves it where it is          *)
(* (Interrupt).                                                            *)
(***************************************************************************)
EXTENDS Naturals

CONSTANTS
  Threads,      \* threads of the observed program
  Finders,      \* instance finders that can be on sys.meta_path
  Opaque,       \* the finders whose __setattr__ bypasses the instance dict
  Absent,       \* no find_spec in the instance dict (_MISSING)
  Bound,        \* the find_spec that attribute lookup finds on the class
  Foreign,      \* a find_spec another tool put in the instance dict
  Nobody,       \* no thread
  MaxInstalls   \* bound: installations in one behaviour

ASSUME OpaqueAssumption == Opaque \subseteq Finders
ASSUME SlotAssumption ==
  /\ Absent \notin Nat /\ Bound \notin Nat /\ Foreign \notin Nat
  /\ Absent # Bound /\ Absent # Foreign /\ Bound # Foreign
ASSUME NobodyAssumption == Nobody \notin Threads

Wrapper == Nat                         \* a wrapper is named by its creation
Slot    == Wrapper \union {Absent, Bound, Foreign}

VARIABLES
  enabled,      \* _Monitor._enabled
  attribution,  \* _finder_attribution_enabled (and _meta_path_enabled)
  lifecycle,    \* the thread in a lifecycle transition, or Nobody
  generation,   \* _lifecycle_generation of the last activation
  recordLock,   \* the thread inside a two-step section of _record_lock
  claimed,      \* DOMAIN of _patches
  installed,    \* _FinderPatch.installed of a claimed finder
  previous,     \* _FinderPatch.previous of a claimed finder
  skipped,      \* DOMAIN of _skipped
  slot,         \* finder.__dict__["find_spec"]
  made,         \* wrappers created so far
  pc, todo, finder, original, found, wrapper,  \* locals of a thread
  doomed,       \* the patches uninstall copied and has still to restore
  foreign,      \* history: finders another tool has shadowed
  raced,        \* history: finders of an attempt that lost a race
  orphaned,     \* history: finders whose claim lost its thread
  stuck         \* finders our wrapper went into where nothing restores it:
                \* a __setattr__ stored it and raised, or their __dict__ is
                \* no plain dict

monitor == <<enabled, attribution, lifecycle, generation>>
patches == <<claimed, installed, previous, skipped>>
locals  == <<todo, finder, original, found, wrapper, made>>
history == <<foreign, raced, orphaned, stuck>>
vars == <<monitor, recordLock, patches, slot, pc, locals, doomed, history>>

\* Program counters of a thread that is inside instrument(finder).
Attempting == {"claim", "inspect", "shadowState", "prepare", "assign",
               "verify", "putBack", "skip", "commit", "store", "undo"}
PC == Attempting \union
        {"idle", "changed", "loop", "copy", "restore", "clear", "flags"}

Working(t, f) == pc[t] \in Attempting \ {"claim"} /\ finder[t] = f
Goto(t, label) == pc' = [pc EXCEPT ![t] = label]
AtLabel(t, label) == pc[t] = label
\* instrument() returns: its locals are gone, the caller's loop goes on.
Return(t) ==
  /\ Goto(t, "loop")
  /\ original' = [original EXCEPT ![t] = Absent]
  /\ found' = [found EXCEPT ![t] = Absent]
  /\ wrapper' = [wrapper EXCEPT ![t] = 0]

Init ==
  /\ enabled = FALSE /\ attribution = FALSE
  /\ lifecycle = Nobody /\ generation = 0 /\ recordLock = Nobody
  /\ claimed = {} /\ skipped = {}
  /\ installed = [f \in Finders |-> Absent]
  /\ previous = [f \in Finders |-> Absent]
  /\ slot = [f \in Finders |-> Absent]
  /\ made = 0
  /\ pc = [t \in Threads |-> "idle"]
  /\ todo = [t \in Threads |-> {}]
  /\ finder \in [Threads -> Finders]
  /\ original = [t \in Threads |-> Absent]
  /\ found = [t \in Threads |-> Absent]
  /\ wrapper = [t \in Threads |-> 0]
  /\ doomed = {}
  /\ foreign = {} /\ raced = {} /\ orphaned = {} /\ stuck = {}
-----------------------------------------------------------------------------
(* Callers of instrument().                                                *)

\* _install: claim the transition, set _enabled before any preparation.
\* S is the contents of sys.meta_path at that time.
InstallBegin(t, S) ==
  /\ AtLabel(t, "idle") /\ lifecycle = Nobody /\ ~enabled
  /\ generation < MaxInstalls
  /\ enabled' = TRUE /\ lifecycle' = t /\ generation' = generation + 1
  /\ raced' = raced \union {f \in Finders : \E u \in Threads : Working(u, f)}
  /\ todo' = [todo EXCEPT ![t] = S]
  /\ Goto(t, "loop")
  /\ UNCHANGED <<attribution, recordLock, patches, slot, finder,
                 original, found, wrapper, made, doomed,
                 foreign, orphaned, stuck>>

\* _recover_reassignments: under the lifecycle lock, outside a transition.
RecoverBegin(t, S) ==
  /\ AtLabel(t, "idle") /\ lifecycle = Nobody /\ enabled /\ attribution
  /\ lifecycle' = t
  /\ todo' = [todo EXCEPT ![t] = S]
  /\ Goto(t, "loop")
  /\ UNCHANGED <<enabled, attribution, generation, recordLock, patches, slot,
                 finder, original, found, wrapper, made, doomed, history>>

\* _on_meta_path_change: f was appended; the first test of the flags ...
MetaPathChange(t, f) ==
  /\ AtLabel(t, "idle") /\ enabled /\ attribution
  /\ todo' = [todo EXCEPT ![t] = {f}]
  /\ Goto(t, "changed")
  /\ UNCHANGED <<monitor, recordLock, patches, slot, finder, original,
                 found, wrapper, made, doomed, history>>

\* ... and, after the record was appended, the second one.
ChangeRecorded(t) ==
  /\ AtLabel(t, "changed")
  /\ Goto(t, IF attribution THEN "loop" ELSE "idle")
  /\ todo' = IF attribution THEN todo ELSE [todo EXCEPT ![t] = {}]
  /\ UNCHANGED <<monitor, recordLock, patches, slot, finder, original,
                 found, wrapper, made, doomed, history>>

NextFinder(t) ==
  /\ AtLabel(t, "loop")
  /\ \E f \in todo[t] :
       /\ finder' = [finder EXCEPT ![t] = f]
       /\ todo' = [todo EXCEPT ![t] = @ \ {f}]
  /\ Goto(t, "claim")
  /\ UNCHANGED <<monitor, recordLock, patches, slot, original, found,
                 wrapper, made, doomed, history>>

\* The loop ends; installation publishes its flags and its transition ends.
LoopEnd(t) ==
  /\ AtLabel(t, "loop") /\ todo[t] = {}
  /\ attribution' = (attribution \/ lifecycle = t)
  /\ lifecycle' = IF lifecycle = t THEN Nobody ELSE lifecycle
  /\ Goto(t, "idle")
  /\ UNCHANGED <<enabled, generation, recordLock, patches, slot, locals,
                 doomed, history>>
-----------------------------------------------------------------------------
(* instrument(finder).                                                     *)

MClaimableTwice(f) == f \notin skipped
Claimable(f) == f \notin claimed \union skipped

Claim(t) ==
  LET f == finder[t] IN
  /\ AtLabel(t, "claim") /\ recordLock = Nobody
  /\ \/ ~Claimable(f) /\ Goto(t, "loop") /\ UNCHANGED claimed
     \/ /\ Claimable(f)
        /\ claimed' = claimed \union {f}
        /\ Goto(t, "inspect")
  /\ UNCHANGED <<monitor, recordLock, installed, previous, skipped, slot,
                 locals, doomed, history>>

\* _class_skip_reason and _find_spec: the lookup is foreign code.
Inspect(t) ==
  /\ AtLabel(t, "inspect")
  /\ \/ Goto(t, "skip") /\ UNCHANGED original
     \/ /\ original' = [original EXCEPT ![t] =
                          IF slot[finder[t]] = Absent THEN Bound
                                                      ELSE slot[finder[t]]]
        /\ Goto(t, "shadowState")
  /\ UNCHANGED <<monitor, recordLock, patches, slot, todo, finder,
                 found, wrapper, made, doomed, history>>

ShadowState(t) ==
  /\ AtLabel(t, "shadowState")
  /\ found' = [found EXCEPT ![t] = slot[finder[t]]]
  /\ Goto(t, "prepare")
  /\ UNCHANGED <<monitor, recordLock, patches, slot, todo, finder,
                 original, wrapper, made, doomed, history>>

\* A claim that is refused because monitoring stopped stays in _patches; when
\* uninstall had already cleared them, nobody removes it any more.
Prepare(t) ==
  LET f == finder[t] IN
  /\ AtLabel(t, "prepare") /\ recordLock = Nobody
  /\ \/ /\ ~enabled \/ f \notin claimed
        /\ orphaned' = IF f \in claimed THEN orphaned \union {f} ELSE orphaned
        /\ Return(t)
        /\ UNCHANGED <<installed, previous, made>>
     \/ /\ enabled /\ f \in claimed
        /\ installed' = [installed EXCEPT ![f] = Absent]
        /\ previous' = [previous EXCEPT ![f] = found[t]]
        /\ made' = made + 1
        /\ wrapper' = [wrapper EXCEPT ![t] = made + 1]
        /\ Goto(t, "assign")
        /\ UNCHANGED <<original, found, orphaned>>
  /\ UNCHANGED <<monitor, recordLock, claimed, skipped, slot, todo, finder,
                 doomed, foreign, raced, stuck>>

\* setattr(finder, "find_spec", value), as far as the instance dict shows it
Assigned(f, value) ==
  IF f \in Opaque THEN slot ELSE [slot EXCEPT ![f] = value]

\* setattr(finder, "find_spec", wrapper).  When it raises, the attempt is
\* skipped as it is: what a __setattr__ stored before it raised stays there.
Assign(t) ==
  LET f == finder[t] IN
  /\ AtLabel(t, "assign")
  /\ \/ Goto(t, "skip") /\ UNCHANGED <<slot, stuck>>
     \/ /\ slot' = Assigned(f, wrapper[t])
        /\ Goto(t, "verify")
        /\ UNCHANGED stuck
     \/ /\ f \notin Opaque
        /\ slot' = Assigned(f, wrapper[t])
        /\ stuck' = stuck \union {f}
        /\ Goto(t, "skip") \/ Goto(t, "verify")
  /\ UNCHANGED <<monitor, recordLock, patches, locals, doomed,
                 foreign, raced, orphaned>>

\* Did the wrapper land in the instance dict?  One that raises says no.
Verify(t) ==
  LET f == finder[t] IN
  /\ AtLabel(t, "verify")
  /\ \/ slot[f] = wrapper[t] /\ Goto(t, "commit")
     \/ (slot[f] # wrapper[t] \/ f \in stuck) /\ Goto(t, "putBack")
  /\ UNCHANGED <<monitor, recordLock, patches, slot, locals, doomed, history>>

\* setattr(finder, "find_spec", original); that it raised is recorded.
PutBack(t) ==
  /\ AtLabel(t, "putBack")
  /\ slot' \in {slot, Assigned(finder[t], original[t])}
  /\ Goto(t, "skip")
  /\ UNCHANGED <<monitor, recordLock, patches, locals, doomed, history>>

MKeepClaim(f) == claimed
ClaimsWithout(f) == claimed \ {f}

Skip(t) ==
  LET f == finder[t] IN
  /\ AtLabel(t, "skip") /\ recordLock = Nobody
  /\ claimed' = ClaimsWithout(f)
  /\ installed' = [installed EXCEPT ![f] = Absent]
  /\ previous' = [previous EXCEPT ![f] = Absent]
  /\ skipped' = IF enabled THEN skipped \union {f} ELSE skipped
  /\ Return(t)
  /\ UNCHANGED <<monitor, recordLock, slot, todo, finder, made, doomed, history>>

\* _commit_shadow takes the record lock and reads _enabled ...
CommitRead(t) ==
  /\ AtLabel(t, "commit") /\ recordLock = Nobody
  /\ \/ /\ enabled /\ finder[t] \in claimed
        /\ recordLock' = t
        /\ Goto(t, "store")
     \/ /\ ~(enabled /\ finder[t] \in claimed)
        /\ Goto(t, "undo")
        /\ UNCHANGED recordLock
  /\ UNCHANGED <<monitor, patches, slot, locals, doomed, history>>

\* ... and stores the patch, whatever _enabled has become.
CommitStore(t) ==
  LET f == finder[t] IN
  /\ AtLabel(t, "store")
  /\ claimed' = claimed \union {f}
  /\ installed' = [installed EXCEPT ![f] = wrapper[t]]
  /\ previous' = [previous EXCEPT ![f] = found[t]]
  /\ recordLock' = Nobody
  /\ raced' = IF enabled THEN raced ELSE raced \union {f}
  /\ Return(t)
  /\ UNCHANGED <<monitor, skipped, slot, todo, finder, made, doomed,
                 foreign, orphaned, stuck>>

\* What _restore_attribute(finder, "find_spec", previous, installed) can leave:
\* it does not touch a __dict__ that is no plain dict.
MRestoreBlindly(f, was, mine) == {[slot EXCEPT ![f] = was]}
Restored(f, was, mine) ==
  IF slot[f] # mine THEN {slot}
  ELSE {[slot EXCEPT ![f] = was]} \union (IF f \in stuck THEN {slot} ELSE {})

MForgetUndo(t) ==
  /\ AtLabel(t, "undo")
  /\ Return(t)
  /\ UNCHANGED <<monitor, recordLock, patches, slot, todo, finder, made, doomed,
                 history>>
Undo(t) ==
  /\ AtLabel(t, "undo")
  /\ slot' \in Restored(finder[t], found[t], wrapper[t])
  /\ Return(t)
  /\ UNCHANGED <<monitor, recordLock, patches, todo, finder, made, doomed, history>>

\* Foreign code raises what instrument() does not catch: a BaseException that
\* is no Exception, or an error of a __dict__ of its own kind.  The attempt and
\* its loop end where they are, the claim stays in _patches without a wrapper
\* to restore, and an installation gives up its transition with _enabled still
\* set.  At "verify" the exception is that of a __setattr__ that stored, or of
\* the dictionary.
Interrupt(t) ==
  LET f == finder[t] IN
  /\ pc[t] \in {"inspect", "shadowState", "assign", "verify", "putBack"}
  /\ orphaned' = IF f \in claimed THEN orphaned \union {f} ELSE orphaned
  /\ stuck' = IF AtLabel(t, "verify") THEN stuck \union {f} ELSE stuck
  /\ lifecycle' = IF lifecycle = t THEN Nobody ELSE lifecycle
  /\ Goto(t, "idle")
  /\ todo' = [todo EXCEPT ![t] = {}]
  /\ original' = [original EXCEPT ![t] = Absent]
  /\ found' = [found EXCEPT ![t] = Absent]
  /\ wrapper' = [wrapper EXCEPT ![t] = 0]
  /\ UNCHANGED <<enabled, attribution, generation, recordLock, patches, slot,
                 finder, made, doomed, foreign, raced>>
-----------------------------------------------------------------------------
(* _Monitor._uninstall and _FinderAttribution.uninstall.                   *)

UninstallBegin(t) ==
  /\ AtLabel(t, "idle") /\ lifecycle = Nobody /\ enabled
  /\ enabled' = FALSE /\ lifecycle' = t
  /\ Goto(t, "copy")
  /\ UNCHANGED <<attribution, generation, recordLock, patches, slot, locals,
                 doomed, history>>

\* list(self._patches.values()), which uninstall takes without the record lock
PatchCopy == {<<f, previous[f], installed[f]>> : f \in claimed}

UninstallCopy(t) ==
  /\ AtLabel(t, "copy")
  /\ doomed' = PatchCopy
  /\ Goto(t, "restore")
  /\ UNCHANGED <<monitor, recordLock, patches, slot, locals, history>>

UninstallRestore(t) ==
  /\ AtLabel(t, "restore")
  /\ \E patch \in doomed :
       /\ slot' \in IF patch[3] = Absent THEN {slot}
                    ELSE Restored(patch[1], patch[2], patch[3])
       /\ doomed' = doomed \ {patch}
  /\ UNCHANGED <<monitor, recordLock, patches, pc, locals, history>>

UninstallClear(t) ==
  /\ AtLabel(t, "restore") /\ doomed = {} /\ recordLock = Nobody
  /\ claimed' = {} /\ skipped' = {} /\ orphaned' = {}
  /\ installed' = [f \in Finders |-> Absent]
  /\ previous' = [f \in Finders |-> Absent]
  /\ Goto(t, "flags")
  /\ UNCHANGED <<monitor, recordLock, slot, locals, doomed, foreign, raced,
                 stuck>>

UninstallEnd(t) ==
  /\ AtLabel(t, "flags")
  /\ attribution' = FALSE /\ lifecycle' = Nobody
  /\ Goto(t, "idle")
  /\ UNCHANGED <<enabled, generation, recordLock, patches, slot, locals,
                 doomed, history>>
-----------------------------------------------------------------------------
\* Another tool shadows find_spec; doing so during an attempt is a race too.
ForeignShadow(f) ==
  /\ f \notin Opaque /\ slot[f] # Foreign
  /\ slot' = [slot EXCEPT ![f] = Foreign]
  /\ foreign' = foreign \union {f}
  /\ raced' = IF \E t \in Threads : Working(t, f) THEN raced \union {f}
                                                  ELSE raced
  /\ UNCHANGED <<monitor, recordLock, patches, pc, locals, doomed, orphaned,
                 stuck>>

Instrument(t) ==
  \/ Claim(t) \/ Inspect(t) \/ ShadowState(t) \/ Prepare(t) \/ Assign(t)
  \/ Verify(t) \/ PutBack(t) \/ Skip(t)
  \/ CommitRead(t) \/ CommitStore(t) \/ Undo(t)

Uninstalling(t) ==
  \/ UninstallCopy(t) \/ UninstallRestore(t) \/ UninstallClear(t)
  \/ UninstallEnd(t)

\* What a thread does once it has entered the monitor.
Proceed(t) ==
  \/ ChangeRecorded(t) \/ NextFinder(t) \/ LoopEnd(t)
  \/ Instrument(t) \/ Uninstalling(t)

Next ==
  \/ \E t \in Threads :
       \/ \E S \in SUBSET Finders : InstallBegin(t, S) \/ RecoverBegin(t, S)
       \/ \E f \in Finders : MetaPathChange(t, f)
       \/ UninstallBegin(t)
       \/ Proceed(t) \/ Interrupt(t)
  \/ \E f \in Finders : ForeignShadow(f)

Spec == Init /\ [][Next]_vars

\* A thread that entered the monitor keeps running; nobody has to install,
\* uninstall or mutate a list, and foreign code need not raise.
FairSpec == Spec /\ \A t \in Threads : WF_vars(Proceed(t))
-----------------------------------------------------------------------------
(* Properties.                                                             *)

\* Every variable has its type.
TypeOK ==
  /\ enabled \in BOOLEAN /\ attribution \in BOOLEAN
  /\ lifecycle \in Threads \union {Nobody}
  /\ recordLock \in Threads \union {Nobody}
  /\ generation \in Nat /\ made \in Nat
  /\ claimed \subseteq Finders /\ skipped \subseteq Finders
  /\ installed \in [Finders -> Wrapper \union {Absent}]
  /\ previous \in [Finders -> Slot]
  /\ slot \in [Finders -> Slot]
  /\ pc \in [Threads -> PC]
  /\ todo \in [Threads -> SUBSET Finders]
  /\ finder \in [Threads -> Finders]
  /\ original \in [Threads -> Slot]
  /\ found \in [Threads -> Slot]
  /\ wrapper \in [Threads -> Wrapper]
  /\ doomed \subseteq (Finders \X Slot \X (Wrapper \union {Absent}))
  /\ foreign \subseteq Finders /\ raced \subseteq Finders
  /\ orphaned \subseteq Finders /\ stuck \subseteq Finders

\* The finders that neither a race nor their own assignment or dictionary keeps
\* from being restored.
Undisturbed == Finders \ (raced \union stuck)

\* The find_spec entry a finder would have without metapathology.
Theirs(f) == IF f \in foreign THEN Foreign ELSE Absent

Holding(t, f) ==
  /\ pc[t] \in {"assign", "verify", "putBack", "commit", "store", "undo"}
  /\ finder[t] = f

\* A thread whose wrapper is in f and that has still to settle what becomes
\* of it: keep it as a committed patch, or take it out.
Settling(t, f) ==
  /\ pc[t] \in {"verify", "commit", "store", "undo"}
  /\ finder[t] = f /\ slot[f] = wrapper[t]

\* Uninstallation gives every finder back as the program had it, without our
\* wrapper and with the shadow of another tool intact, except for a thread
\* that is about to take its own wrapper out.  The races that break this are
\* the ones "raced" records: a commit that read _enabled before uninstall
\* cleared it, an attempt that survives into the next installation, and
\* another tool that shadows the finder in the middle of an attempt.  The
\* finders that break it are the "stuck" ones: those whose assignment stored
\* our wrapper and then raised, which no patch remembers, and those whose
\* instance dictionary is no plain dict, which restoration does not touch.
RestoredAfterUninstall ==
  (~enabled /\ lifecycle = Nobody) =>
    \A f \in Undisturbed :
      slot[f] = Theirs(f) \/ \E t \in Threads : Settling(t, f)

\* A claim keeps every other thread away from its finder, so while monitoring
\* is on each claim is a finished patch or belongs to a thread that is still
\* at work on it.  Two events leave a claim nobody will settle before the next
\* uninstall clears it, and "orphaned" records them: a refused _prepare_claim,
\* and foreign code that raises past instrument().  No other path does, not
\* even one that ends in the next installation.
NoAbandonedClaim ==
  enabled =>
    \A f \in claimed \ (raced \union orphaned) :
      installed[f] # Absent \/ \E t \in Threads : Working(t, f)

\* Two threads are never both between _prepare_claim and the end of an
\* attempt for one finder, so wrappers do not nest.
OneAttemptPerFinder ==
  \A f \in Finders \ raced : \A t, u \in Threads :
    Holding(t, f) /\ Holding(u, f) => t = u

\* Monitoring that stays off ends with every finder as the program had it, but
\* for those that lost a race or are stuck.
EventuallyRestored ==
  <>[](~enabled) =>
    <>[](\A f \in Undisturbed : slot[f] = Theirs(f))

Quiet == lifecycle = Nobody /\ \A t \in Threads : pc[t] = "idle"

\* tests/monitoring/test_meta_path.py:174-176: uninstall() can run to
\* completion while a thread is still inside instrument(), and "the late
\* wrapper must not survive".  (A wrapper that is stuck is not a late one.)
NoWrapperSurvives ==
  (Quiet /\ ~enabled) => \A f \in Finders \ stuck : slot[f] \notin Wrapper
-----------------------------------------------------------------------------
(* The inductive invariant behind RestoredAfterUninstall.                  *)

\* The patches in _patches are those of the current capture: monitoring is
\* on, or uninstall has not cleared them yet.
Live == enabled \/ \E u \in Threads : pc[u] \in {"copy", "restore"}

UninstallHoldsLifecycle ==
  \A t \in Threads :
    pc[t] \in {"copy", "restore", "flags"} => lifecycle = t /\ ~enabled

LiveClaims ==
  Live => \A f \in Finders \ raced : \A t \in Threads :
    Working(t, f) =>
      /\ f \in claimed /\ installed[f] = Absent
      /\ \A u \in Threads : Working(u, f) => t = u

DeadPatches ==
  ~Live => \A f \in Finders \ raced : installed[f] = Absent

PatchesAreClaims == \A f \in Finders : installed[f] # Absent => f \in claimed

FoundIsTheirs ==
  \A f \in Undisturbed : \A t \in Threads :
    Holding(t, f) \/ (enabled /\ pc[t] = "prepare" /\ finder[t] = f)
    => found[t] = Theirs(f)

NothingThereYet ==
  Live => \A f \in Undisturbed : \A t \in Threads :
    pc[t] \in {"inspect", "shadowState", "prepare", "assign"} /\ finder[t] = f
    => slot[f] = Theirs(f)

WrapperLanded ==
  \A f \in Finders \ raced : \A t \in Threads :
    finder[t] = f =>
      /\ pc[t] \in {"verify", "commit", "store", "undo"} =>
           f \in Opaque \/ slot[f] = wrapper[t]
      /\ pc[t] = "putBack" => f \in Opaque \union stuck

Accounted(f) ==
  \/ slot[f] = Theirs(f)
  \/ \E t \in Threads : Settling(t, f)
  \/ /\ slot[f] \in Wrapper /\ slot[f] = installed[f]
     /\ previous[f] = Theirs(f)
     /\ \A u \in Threads : pc[u] = "restore" =>
          <<f, previous[f], installed[f]>> \in doomed

SlotIsAccountedFor == \A f \in Undisturbed : Accounted(f)

DoomedArePatches ==
  \A patch \in doomed :
    patch[1] \notin raced /\ patch[3] # Absent =>
      previous[patch[1]] = patch[2] /\ installed[patch[1]] = patch[3]

DoomedWhileRestoring == doomed # {} => \E u \in Threads : pc[u] = "restore"

\* A claim made while monitoring is off, and no uninstall has still to clear it,
\* is on its way to be refused or skipped by the thread that made it.
DeadClaimsAreRefused ==
  ~Live => \A f \in claimed \ (raced \union orphaned) :
    \E t \in Threads :
      pc[t] \in {"inspect", "shadowState", "prepare", "skip"} /\ finder[t] = f

\* While monitoring is on, only a thread that lost a race gives a claim up
\* without _skip.
NoUndoWhileOn ==
  enabled => \A t \in Threads : AtLabel(t, "undo") => finder[t] \in raced

\* Every wrapper in a finder is accounted for, by a thread at work or by the
\* patch that uninstall will restore, every patch remembers what the finder
\* held before, and every claim has a thread that will settle it: what
\* RestoredAfterUninstall, OneAttemptPerFinder and NoAbandonedClaim rest on,
\* and inductive.
RestoreInv ==
  /\ TypeOK
  /\ UninstallHoldsLifecycle /\ LiveClaims /\ DeadPatches /\ PatchesAreClaims
  /\ OneAttemptPerFinder /\ FoundIsTheirs /\ NothingThereYet /\ WrapperLanded
  /\ SlotIsAccountedFor /\ DoomedArePatches /\ DoomedWhileRestoring
  /\ NoAbandonedClaim /\ DeadClaimsAreRefused /\ NoUndoWhileOn
=============================================================================
