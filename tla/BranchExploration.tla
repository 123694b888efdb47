-------------------------- MODULE BranchExploration --------------------------
(***************************************************************************)
(* Unsafe branch exploration: after a real import chose a finder, a hook   *)
(* or a path entry, the candidates it skipped are called one by one.       *)
(*                                                                         *)
(* Code: ImportBranchExplorer (_branch_exploration.py), started from the   *)
(* profiler and from the wrappers of _finder_attribution.py and            *)
(* _detailed_capture.py.                                                   *)
(*                                                                         *)
(* One importing thread: `active` is thread-local.  Other threads install  *)
(* and uninstall.  A candidate is foreign code: it answers, raises, or     *)
(* imports something itself, which reaches the same starting points again. *)
(* Which candidates there are is their position in sys.meta_path, in the   *)
(* search path and in sys.path_hooks; a start copies the later ones.       *)
(*                                                                         *)
(* Operators whose name starts with M are faults the checks are measured   *)
(* with: each stands for a plausible mistake in the definition below it.   *)
(***************************************************************************)
EXTENDS Naturals, Sequences, SequencesExt

CONSTANTS
  MetaPath, Entries, Hooks,  \* how many there are of each
  NoCall,       \* the thread is not in a candidate
  MaxStarts, MaxChanges  \* bounds: explorations, steps of (un)install

Boundaries == {"meta_path", "path_entry", "path_hook"}
Size(b) == CASE b = "meta_path" -> MetaPath
             [] b = "path_entry" -> Entries
             [] b = "path_hook" -> Hooks
Index == 1 .. (MetaPath + Entries + Hooks)
\* `entry` is the search-path entry a hook is called for, 0 outside a search.
Calls == [what : Boundaries \union {"finder"}, entry : 0..Entries, index : Index]

\* Assumed of the constants where the module is instantiated.
ConstantsAssumption ==
  /\ MetaPath \in Nat \ {0} /\ Entries \in Nat \ {0} /\ Hooks \in Nat \ {0}
  /\ MaxStarts \in Nat /\ MaxChanges \in Nat
  /\ NoCall \notin Calls

VARIABLES
  phase,    \* "off", "rising", "on", "falling": Monitor._enabled goes up
            \* before and down before ImportBranchExplorer._enabled
  active,   \* _local.active
  loops,    \* the running _run_* loops, the innermost last
  call,     \* the candidate the thread is in
  named,    \* the module's name is known (a path hook may be called outside
            \* any search)
  trigger,  \* what started the outermost exploration, and where
  log,      \* history: the ImportBranchExplorationCall records it made
  disturbed,  \* history: uninstall() came in between
  starts, changes  \* bounds: so far

vars == <<phase, active, loops, call, named, trigger, log, disturbed, starts,
          changes>>

Loops == [over : Boundaries, entry : 0..Entries, left : Seq(Index),
          restore : BOOLEAN]

TypeOK ==
  /\ phase \in {"off", "rising", "on", "falling"}
  /\ active \in BOOLEAN /\ named \in BOOLEAN /\ disturbed \in BOOLEAN
  /\ loops \in Seq(Loops)
  /\ call \in Calls \union {NoCall}
  /\ trigger \in [over : Boundaries, index : Index]
  /\ log \in Seq(Calls)
  /\ starts \in 0..MaxStarts /\ changes \in 0..MaxChanges

Init ==
  /\ phase = "off" /\ active = FALSE
  /\ loops = <<>> /\ call = NoCall /\ named = FALSE
  /\ trigger = [over |-> "meta_path", index |-> 1]
  /\ log = <<>> /\ disturbed = FALSE
  /\ starts = 0 /\ changes = 0

Enabled == phase = "on"
MonitorOn == phase \in {"rising", "on"}

\* install() and uninstall(), by another thread or by a candidate.
ChangePhase ==
  /\ changes < MaxChanges
  /\ changes' = changes + 1
  /\ phase' = CASE phase = "off" -> "rising" [] phase = "rising" -> "on"
                [] phase = "on" -> "falling" [] phase = "falling" -> "off"
  /\ disturbed' = (disturbed \/ loops # <<>>)
  /\ UNCHANGED <<active, loops, call, named, trigger, log, starts>>

MLater(i, n) == [k \in 1 .. (n - i + 1) |-> i + k - 1]
\* candidates[index + 1 :]
Later(i, n) == [k \in 1 .. (n - i) |-> i + k]

(***************************************************************************)
(* profile, after_meta_path_exception, after_path_hook and                 *)
(* after_path_entry_exception: an import, which may be one a candidate     *)
(* makes, got its answer from number i.                                    *)
(***************************************************************************)
Start(b, i, isNamed) ==
  /\ loops = <<>> \/ call # NoCall
  /\ Enabled /\ ~active /\ starts < MaxStarts
  /\ starts' = starts + 1
  /\ active' = TRUE
  /\ loops' = Append(loops, [over |-> b, entry |-> 0,
                             left |-> Later(i, Size(b)), restore |-> active])
  /\ trigger' = [over |-> b, index |-> i]
  /\ named' = (isNamed \/ b # "path_hook")
  /\ log' = <<>> /\ disturbed' = FALSE /\ call' = NoCall
  /\ UNCHANGED <<phase, changes>>

(***************************************************************************)
(* The loops.                                                              *)
(***************************************************************************)
Running == loops # <<>> /\ call = NoCall
Loop == Last(loops)
Next1 == Head(Loop.left)
Taken == Append(Front(loops), [Loop EXCEPT !.left = Tail(@)])
Goes == Running /\ Loop.left # <<>> /\ Enabled
Quiet == UNCHANGED <<phase, named, trigger, disturbed, starts, changes>>

\* _record_call drops the record when the monitor is off.
Record(c) == log' = IF MonitorOn THEN Append(log, c) ELSE log

CallCandidate ==
  /\ Goes
  /\ loops' = Taken
  /\ call' = [what |-> Loop.over, index |-> Next1,
              entry |-> IF Loop.over = "path_entry" THEN Next1 ELSE Loop.entry]
  /\ UNCHANGED <<active, log>> /\ Quiet

\* sys.path_importer_cache holds None for the entry.
NegativeCache ==
  /\ Goes /\ Loop.over = "path_entry"
  /\ loops' = Taken
  /\ Record([what |-> "path_entry", entry |-> Next1, index |-> Next1])
  /\ UNCHANGED <<active, call>> /\ Quiet

\* It holds nothing: the path hooks are asked for a finder.
AskHooks ==
  /\ Goes /\ Loop.over = "path_entry"
  /\ loops' = Append(Taken, [over |-> "path_hook", entry |-> Next1,
                             left |-> Later(0, Hooks), restore |-> active])
  /\ active' = TRUE
  /\ UNCHANGED <<call, log>> /\ Quiet

MRestored == FALSE
\* _run_hooks puts the flag back as it was, the other loops lower it.
Restored == Loop.over = "path_hook" /\ Loop.restore

LoopEnds ==
  /\ Running /\ (Loop.left = <<>> \/ ~Enabled)
  /\ active' = Restored
  /\ loops' = Front(loops)
  /\ UNCHANGED <<call, log>> /\ Quiet

\* A finder answers, a hook declines, either raises an Exception: recorded.
Answer ==
  /\ call # NoCall
  /\ Record(call)
  /\ call' = NoCall
  /\ UNCHANGED <<active, loops>> /\ Quiet

\* A hook returns a finder, which is called next.
HookReturns ==
  /\ call # NoCall /\ call.what = "path_hook" /\ named
  /\ Record(call)
  /\ call' = [call EXCEPT !.what = "finder"]
  /\ UNCHANGED <<active, loops>> /\ Quiet

\* A BaseException leaves every loop through its `finally`.
Interrupt ==
  /\ call # NoCall
  /\ call' = NoCall
  /\ loops' = <<>> /\ active' = loops[1].restore
  /\ UNCHANGED log /\ Quiet

Next ==
  \/ ChangePhase
  \/ \E b \in Boundaries, isNamed \in BOOLEAN :
       \E i \in 1..Size(b) : Start(b, i, isNamed)
  \/ CallCandidate \/ NegativeCache \/ AskHooks \/ LoopEnds
  \/ Answer \/ HookReturns \/ Interrupt

Spec == Init /\ [][Next]_vars

(***************************************************************************)
(* Properties.                                                             *)
(***************************************************************************)
\* "It stops there.  It does not explore new branches created by those calls"
\* (docs/capture.md): whatever a candidate imports, there is one exploration,
\* the flag that says so is up as long as any of its loops runs, and down
\* after, interrupted or not; while it is up every wrapper only passes calls
\* through, so a flag left up would end observation for the thread.
OneExploration ==
  /\ active <=> loops # <<>>
  /\ \A k \in 2..Len(loops) : loops[k].restore

\* What a call is a call of: a finder that a hook returned goes with that hook.
Sibling(c) == IF c.what = "finder" THEN [c EXCEPT !.what = "path_hook"] ELSE c

\* Where the exploration has got with its first n records.
Visited(n) ==
  IF n = 0 THEN [what |-> trigger.over, index |-> trigger.index,
                 entry |-> IF trigger.over = "path_entry" THEN trigger.index ELSE 0]
           ELSE Sibling(log[n])

\* The candidates one of which comes next: the next of its kind, or of the next
\* path entry either its finder or the first hook.
Following(c) ==
  IF c.what # "path_entry" /\ c.index < Size(c.what)
    THEN {[c EXCEPT !.index = @ + 1]}
  ELSE IF trigger.over = "path_entry" /\ c.entry < Entries
    THEN {[what |-> "path_entry", entry |-> c.entry + 1, index |-> c.entry + 1],
          [what |-> "path_hook", entry |-> c.entry + 1, index |-> 1]}
  ELSE {}

\* Call c comes right after the first n records.
Follows(c, n) ==
  IF c.what = "finder" THEN n > 0 /\ log[n] = Sibling(c)
                       ELSE c \in Following(Visited(n))

Ordered == \A k \in DOMAIN log : Follows(log[k], k - 1)

\* "Metapathology calls the remaining direct candidates in order"
\* (docs/capture.md): what an exploration records starts after the candidate
\* that answered and leaves nothing out, takes nothing twice and turns to
\* nothing else, up to where something cuts it short; and a loop that comes to
\* its end has called the last one.
ExploresEveryLaterSibling ==
  ~disturbed =>
    /\ Ordered
    /\ Len(loops) = 1 /\ call = NoCall /\ Loop.left = <<>> =>
         Following(Visited(Len(log))) = {}

\* What carries OneExploration from step to step: the outermost loop lowers the
\* flag, the others, loops over the hooks of an entry, leave it up; and a loop
\* has only candidates of its boundary left.
WellNested(ls) ==
  /\ ls \in Seq(Loops)
  /\ ls # <<>> => ~ls[1].restore
  /\ \A k \in 2..Len(ls) : ls[k].over = "path_hook" /\ ls[k].restore
  /\ \A k \in 1..Len(ls) : ls[k].left \in Seq(1..Size(ls[k].over))

\* What carries ExploresEveryLaterSibling: while nothing has disturbed it, the
\* exploration is at a candidate, the one it is calling or the last it has
\* called, and what its loops have left is what comes after that one.
Position == IF call = NoCall THEN Visited(Len(log)) ELSE Sibling(call)
EntryDone(c) == c.what = "path_entry" \/ c.index >= Hooks

AtPosition(c) ==
  /\ phase = "on" /\ loops[1].over = trigger.over
  /\ IF trigger.over # "path_entry"
       THEN /\ Len(loops) = 1 /\ c.what = trigger.over
            /\ loops[1].entry = 0 /\ c.entry = 0
            /\ loops[1].left = Later(c.index, Size(c.what))
       ELSE /\ c.what \in {"path_entry", "path_hook"} /\ c.entry \in 1..Entries
            /\ Len(loops) = 1 =>
                 EntryDone(c) /\ loops[1].left = Later(c.entry, Entries)
            /\ Len(loops) # 1 =>
                 /\ Len(loops) = 2
                 /\ loops[1].left = Later(loops[2].entry, Entries)
                 /\ \/ /\ c.what = "path_hook" /\ c.entry = loops[2].entry
                       /\ loops[2].left = Later(c.index, Hooks)
                    \/ /\ call = NoCall /\ EntryDone(c)
                       /\ c.entry + 1 = loops[2].entry
                       /\ loops[2].left = Later(0, Hooks)

InOrder ==
  ~disturbed =>
    /\ Ordered
    /\ call # NoCall => Follows(call, Len(log))
    /\ loops # <<>> => AtPosition(Position)

ExploreInv ==
  /\ TypeOK /\ OneExploration
  /\ WellNested(loops) /\ (call # NoCall => loops # <<>>)
  /\ InOrder
=============================================================================
