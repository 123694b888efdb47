--------------------------- MODULE ImportProfiling ---------------------------
(***************************************************************************)
(* How one thread's imports become joined records: the audit event, the    *)
(* profiler's call and return events, and the identity they share.         *)
(*                                                                         *)
(* Code: _profile_import_boundary, _profile_path_finder and                *)
(* active_import_search_id (_detailed_capture.py), _profile_path_get_spec  *)
(* (_branch_exploration.py), _record_import_search_started (_monitor.py).  *)
(*                                                                         *)
(* The interpreter runs `frames`, the thread's Python stack reduced to the *)
(* three functions the profiler knows.  The monitor never sees the stack:  *)
(* it keeps three stacks of its own, pushed at call events and popped at   *)
(* return events, some only under a condition.  That the four agree is     *)
(* what is checked.  Other threads matter only by installing and           *)
(* uninstalling, which this thread may do too; all the rest of the state   *)
(* is thread-local.                                                        *)
(*                                                                         *)
(* Operators whose name starts with M are faults the checks are measured   *)
(* with: each stands for a plausible mistake in the definition below it.   *)
(***************************************************************************)
EXTENDS Naturals, Sequences, SequencesExt

CONSTANTS
  Names,       \* module names
  Odd,         \* those given as instances of a subclass of str
  Nothing,     \* no pending search, no record
  MaxImports, MaxDepth, MaxChanges  \* bounds: imports, frames, (un)installs

ASSUME NameAssumption == Odd \subseteq Names
ASSUME NothingAssumption == Nothing \notin [id : Nat, name : Names]
ASSUME BoundAssumption ==
  MaxImports \in Nat /\ MaxDepth \in Nat /\ MaxChanges \in Nat

VARIABLES
  auditFirst, \* CPython up to 3.14: audit event, then _find_and_load
  level,      \* "off", "audit" (the hook is on), "results" (the import results
              \* too, but this thread has no profiler), "full", "lost" (it had)
  frames,     \* _find_and_load, PathFinder.find_spec, PathFinder._get_spec
  searches,   \* _detailed_local.import_searches
  calls,      \* _detailed_local.path_finder_calls
  contexts,   \* ImportBranchExplorer._local.path_contexts, by name
  pending,    \* _local.pending_import_search
  stale,      \* history: pending is of an import whose call event never came
  owner,      \* history: owner[id] is the import search id was drawn for;
              \* its length is _search_id
  imports, changes,  \* bounds: so far
  said,       \* history: the record of the last step, if it made one, and
              \* what it is really about
  skewed      \* history: the shadow stacks may have left the real one

shadows == <<searches, calls, contexts>>
drawn == <<pending, stale, owner>>
vars == <<auditFirst, level, frames, shadows, drawn, imports, changes, said,
          skewed>>

Whats == {"asking", "load", "path_finder", "entry"}
Searches == [id : Nat, name : Names]
Frames == [what : Whats, name : Names, number : Nat]
Records == [kind : {"searching", "started", "finished", "aggregate"},
            id : Nat, name : Names, number : Nat, really : Names]

\* Every variable has its type, and ids are ids that were drawn.
TypeOK ==
  /\ auditFirst \in BOOLEAN
  /\ level \in {"off", "audit", "results", "full", "lost"}
  /\ frames \in Seq(Frames) /\ Len(frames) <= MaxDepth
  /\ searches \in Seq(Searches) /\ calls \in Seq(Searches)
  /\ contexts \in Seq(Names)
  /\ pending \in Searches \union {Nothing} /\ stale \in BOOLEAN
  /\ owner \in Seq(1..MaxImports)
  /\ imports \in 0..MaxImports /\ changes \in 0..MaxChanges
  /\ said \in Records \union {Nothing}
  /\ skewed \in BOOLEAN
  /\ \A s \in Range(searches) \union Range(calls) \union ({pending} \ {Nothing}) :
       s.id \in 1..Len(owner)

Init ==
  /\ auditFirst \in BOOLEAN
  /\ level = "off" /\ frames = <<>>
  /\ searches = <<>> /\ calls = <<>> /\ contexts = <<>>
  /\ pending = Nothing /\ stale = FALSE /\ owner = <<>>
  /\ imports = 0 /\ changes = 0
  /\ said = Nothing /\ skewed = FALSE

Ordinary(n) == n \notin Odd
Silent == said' = Nothing
Asking == frames # <<>> /\ Last(frames).what = "asking"
Room == Len(frames) < MaxDepth /\ ~Asking
Open == searches # <<>> \/ calls # <<>> \/ contexts # <<>>
Say(k, id, n, number, really) ==
  said' = [kind |-> k, id |-> id, name |-> n, number |-> number,
           really |-> really]
Push(what, n, number) ==
  frames' = Append(frames, [what |-> what, name |-> n, number |-> number])

(***************************************************************************)
(* install() and uninstall(), in steps, by any thread at any moment.  Only *)
(* the installing thread and those started later get the profiler.         *)
(***************************************************************************)
ChangeLevel ==
  /\ changes < MaxChanges
  /\ changes' = changes + 1
  /\ level' \in CASE level = "off"            -> {"audit"}
                  [] level = "audit"          -> {"results"}
                  [] level = "results"        -> {"full", "off"}
                  [] level \in {"full", "lost"} -> {"off"}
  \* Leaving "full" inside calls loses their return events; what the second
  \* event of an import goes by may come after its first.
  /\ skewed' = \/ skewed
               \/ level = "full" /\ Open
               \/ level = (IF auditFirst THEN "audit" ELSE "results")
                    /\ level' # "off" /\ Asking
  /\ Silent
  /\ UNCHANGED <<auditFirst, frames, shadows, drawn, imports>>

\* An interrupt leaves the profiler's callback: CPython takes the profiler off
\* the thread, and everything else is as it was; or the callback was that of
\* an import's call event, had taken the pending search, and the import ends.
CallbackRaises ==
  /\ level = "full" /\ level' = "lost"
  /\ \/ UNCHANGED <<frames, pending, stale>>
     \/ /\ Asking => auditFirst
        /\ pending' = Nothing /\ stale' = FALSE
        /\ frames' = IF Asking THEN Front(frames) ELSE frames
  /\ skewed' = (skewed \/ Open)
  /\ Silent
  /\ UNCHANGED <<auditFirst, shadows, owner, imports, changes>>

(***************************************************************************)
(* The two events that open an import.                                     *)
(***************************************************************************)
\* active_import_search_id: the search the profiler has open for this name.
ActiveSearch(n) ==
  IF searches # <<>> /\ Last(searches).name = n THEN Last(searches).id ELSE 0

MNewSearchId == Len(owner)
NewSearchId == Len(owner) + 1

\* import_results_enabled, in a thread with the profiler or without.
Listening == level \in {"results", "full", "lost"}

\* _record_import_search_started; number is the import it really is.  Its call
\* event comes after the audit event, came before, or never comes.  The search
\* is left for the call event, unless the profiler had it already.
Audit(n, number, call) ==
  IF level = "off" \/ ~Ordinary(n)
    THEN Silent /\ UNCHANGED <<drawn, skewed>>
    ELSE LET active == ActiveSearch(n)
             id == IF active = 0 THEN NewSearchId ELSE active
             left == Listening /\ active = 0
         IN /\ owner' = IF active = 0 THEN Append(owner, number) ELSE owner
            /\ Say("searching", id, n, number, n)
            /\ pending' = IF left THEN [id |-> id, name |-> n] ELSE pending
            /\ stale' = IF left THEN call # "after" ELSE stale
            \* The audit of a nested import of the same module.
            /\ skewed' = (skewed \/ (active # 0 /\ call # "before"))

Enters == level = "full"

MTaken == pending
Taken == Nothing

\* The call event of _find_and_load.  A name that is not exactly a str is
\* left alone here, but its return event is not.
Enter(n, number) ==
  IF ~Enters \/ ~Ordinary(n)
    THEN /\ Silent /\ UNCHANGED <<searches, pending, owner>>
         /\ stale' = (pending # Nothing)
         /\ skewed' = (skewed \/ (Enters /\ searches # <<>>))
    ELSE LET found == pending # Nothing /\ pending.name = n
             id == IF found THEN pending.id ELSE NewSearchId
         IN /\ pending' = Taken /\ stale' = FALSE
            /\ owner' = IF found THEN owner ELSE Append(owner, number)
            /\ searches' = Append(searches, [id |-> id, name |-> n])
            /\ Say("started", id, n, number, n)
            \* A search that another import of the module left.
            /\ skewed' = (skewed \/ (found /\ stale))

\* An import statement's first event.
ImportStatement(n) ==
  /\ Room /\ imports < MaxImports
  /\ imports' = imports + 1
  /\ IF auditFirst
       THEN Audit(n, imports', "after") /\ UNCHANGED searches
       ELSE Enter(n, imports')
  /\ Push("asking", n, imports')
  /\ UNCHANGED <<auditFirst, level, calls, contexts, changes>>

\* Its second event.
ImportGoesOn ==
  /\ Asking
  /\ LET f == Last(frames)
     IN /\ IF auditFirst
             THEN Enter(f.name, f.number)
             ELSE Audit(f.name, f.number, "before") /\ UNCHANGED searches
        /\ frames' = Append(Front(frames), [f EXCEPT !.what = "load"])
  /\ UNCHANGED <<auditFirst, level, calls, contexts, imports, changes>>

\* Or there is none: another audit hook refuses the import.  (Where the call
\* event came first, its return event follows: LoadReturns.)
ImportRefused ==
  /\ auditFirst /\ Asking
  /\ frames' = Front(frames)
  /\ stale' = (pending # Nothing)
  /\ Silent
  /\ UNCHANGED <<auditFirst, level, shadows, pending, owner, imports, changes,
                 skewed>>

\* An import inside the profiler's callback has no call event.
ImportInCallback(n) ==
  /\ level = "full" /\ ~Asking /\ imports < MaxImports
  /\ imports' = imports + 1
  /\ Audit(n, imports', "never")
  /\ UNCHANGED <<auditFirst, level, frames, shadows, changes>>

\* importlib.import_module(): no audit event.
ImportModule(n) ==
  /\ Room /\ imports < MaxImports
  /\ imports' = imports + 1
  /\ Enter(n, imports')
  /\ Push("load", n, imports')
  /\ UNCHANGED <<auditFirst, level, calls, contexts, changes>>

(***************************************************************************)
(* PathFinder, called by the import system or by anybody.                  *)
(***************************************************************************)
\* The import the innermost open _find_and_load is for, 0 for none: what a
\* frame is called from runs in the same import.
Current == IF frames = <<>> THEN 0 ELSE Last(frames).number

\* The call event: only for the name of the innermost open search.
AskPathFinder(n) ==
  /\ Room
  /\ LET noted == /\ Enters /\ Ordinary(n) /\ searches # <<>>
                  /\ Last(searches).name = n
     IN /\ calls' = IF noted THEN Append(calls, Last(searches)) ELSE calls
        /\ Push("path_finder", n, Current)
        /\ skewed' = (skewed \/ (Enters /\ ~noted /\ calls # <<>>))
  /\ Silent
  /\ UNCHANGED <<auditFirst, level, searches, contexts, drawn, imports, changes>>

\* PathFinder.find_spec calls _get_spec.
AskEntry ==
  /\ Len(frames) < MaxDepth
  /\ frames # <<>> /\ Last(frames).what = "path_finder"
  /\ LET n == Last(frames).name
         noted == Enters /\ Ordinary(n)
     IN /\ contexts' = IF noted THEN Append(contexts, n) ELSE contexts
        /\ Push("entry", n, Last(frames).number)
        /\ skewed' = (skewed \/ (Enters /\ ~noted /\ contexts # <<>>))
  /\ Silent
  /\ UNCHANGED <<auditFirst, level, searches, calls, drawn, imports, changes>>

(***************************************************************************)
(* Return events pop whatever is on top.                                   *)
(***************************************************************************)
MPop(stack) == stack
Pop(stack) == IF stack = <<>> THEN stack ELSE Front(stack)

Returned(f) ==
  /\ frames' = Front(frames)
  /\ UNCHANGED <<auditFirst, level, drawn, imports, changes, skewed>>

\* Where the profiler is inside an import.
Entered == IF auditFirst THEN {"load"} ELSE {"load", "asking"}

LoadReturns ==
  /\ frames # <<>> /\ Last(frames).what \in Entered
  /\ LET f == Last(frames)
     IN /\ searches' = IF Enters THEN Pop(searches) ELSE searches
        /\ IF Enters /\ searches # <<>>
             THEN Say("finished", Last(searches).id, Last(searches).name,
                      f.number, f.name)
             ELSE Silent
        /\ Returned(f)
  /\ UNCHANGED <<calls, contexts>>

PathFinderReturns(found) ==
  /\ frames # <<>> /\ Last(frames).what = "path_finder"
  /\ LET f == Last(frames)
     IN /\ calls' = IF Enters THEN Pop(calls) ELSE calls
        /\ IF Enters /\ calls # <<>> /\ found
             THEN Say("aggregate", Last(calls).id, Last(calls).name, f.number,
                      f.name)
             ELSE Silent
        /\ Returned(f)
  /\ UNCHANGED <<searches, contexts>>

EntryReturns ==
  /\ frames # <<>> /\ Last(frames).what = "entry"
  /\ contexts' = IF Enters THEN Pop(contexts) ELSE contexts
  /\ Returned(Last(frames))
  /\ Silent
  /\ UNCHANGED <<searches, calls>>

Next ==
  \/ ChangeLevel
  \/ CallbackRaises
  \/ \E n \in Names : ImportStatement(n)
  \/ ImportGoesOn
  \/ ImportRefused
  \/ \E n \in Names : ImportInCallback(n)
  \/ \E n \in Names : ImportModule(n)
  \/ \E n \in Names : AskPathFinder(n)
  \/ AskEntry
  \/ LoadReturns
  \/ \E found \in BOOLEAN : PathFinderReturns(found)
  \/ EntryReturns

Spec == Init /\ [][Next]_vars

(***************************************************************************)
(* Properties.  Seven things part the records from the calls, and nothing  *)
(* else does (`skewed`): uninstall() inside a call, an interrupt of the    *)
(* profiler's callback inside one, install() between the two events of an  *)
(* import, the name of a nested call that is not exactly a str,            *)
(* PathFinder.find_spec() called inside another PathFinder search for a    *)
(* module that is not being imported, an import of a module inside the     *)
(* search for the same one, and one that takes the search of an earlier    *)
(* import of the module, whose call event never came.                      *)
(***************************************************************************)
\* A shadow of some places of a stack has their innermost ones, in order; the
\* outer ones may be missing.
Shadows(shadow, stack, places) ==
  \E at \in [DOMAIN shadow -> places] :
    /\ \A i, j \in DOMAIN shadow : i < j => at[i] < at[j]
    /\ \A i \in DOMAIN shadow : shadow[i] = stack[at[i]]
    /\ \A i \in DOMAIN shadow, p \in places :
         at[i] <= p => \E j \in DOMAIN shadow : at[j] = p

Places(whats) == {i \in DOMAIN frames : frames[i].what \in whats}
About(stack) == [i \in DOMAIN stack |-> <<owner[stack[i].id], stack[i].name>>]
Really == [i \in DOMAIN frames |-> <<frames[i].number, frames[i].name>>]
Called == [i \in DOMAIN frames |-> frames[i].name]

\* The innermost calls the monitor believes it is in are the innermost calls
\* the thread is in: the open searches those of the open _find_and_load
\* frames, the PathFinder calls and the path contexts those of the open frames
\* of PathFinder.  What began before the installation is missing, never
\* mistaken.
ShadowsAreTheStack ==
  ~skewed =>
    /\ Shadows(About(searches), Really, Places(Entered))
    /\ Shadows(About(calls), Really, Places({"path_finder"}))
    /\ Shadows(contexts, Called, Places({"entry"}))

\* A record is about what it says: its search id was drawn for the import the
\* event belongs to and its name is the one that call was about ("Record
\* paired entry and completion", "Capture successful aggregate PathFinder
\* results").  An import that began before the installation has no record to
\* complete and takes nobody else's.
RecordsOwnImport ==
  said # Nothing /\ ~skewed =>
    said.name = said.really /\ owner[said.id] = said.number

\* The audit record and the profiler's records of one import share one search
\* id, whichever comes first (pending_import_search, active_import_search_id).
OneSearchPerImport ==
  ~skewed => \A i, j \in 1..Len(owner) : owner[i] = owner[j] => i = j

\* What the three rest on: an import between its two events is the innermost
\* frame; every frame has the number of the import it runs in; a pending search
\* that is not stale is the one of the import being asked for; and that import
\* has its search if the events so far were seen.
ImportFrame(i) == frames[i].what \in {"asking", "load"}
FramesFit ==
  /\ \A i \in DOMAIN frames : frames[i].what = "asking" => i = Len(frames)
  /\ \A i \in DOMAIN frames : ImportFrame(i) => frames[i].number \in 1..imports
  /\ \A p, i \in DOMAIN frames :
       p <= i /\ ImportFrame(p) /\ (\A j \in p + 1 .. i : ~ImportFrame(j))
         => frames[i].number = frames[p].number
  /\ \A i \in DOMAIN owner : owner[i] \in 1..imports
PendingFits ==
  ~skewed /\ pending # Nothing /\ ~stale =>
    /\ auditFirst /\ Asking
    /\ pending.name = Last(frames).name /\ Ordinary(pending.name)
    /\ owner[pending.id] = Last(frames).number
AskingFits ==
  ~skewed /\ Asking /\ Ordinary(Last(frames).name) =>
    IF auditFirst
      THEN Listening => pending # Nothing /\ ~stale
      ELSE IF level = "full" THEN searches # <<>>
           ELSE \A i \in DOMAIN owner : owner[i] # Last(frames).number
NoShadowsYet ==
  ~skewed /\ level # "full" => ~Open

ProfilingInv ==
  /\ TypeOK /\ FramesFit /\ PendingFits /\ AskingFits /\ NoShadowsYet
  /\ ShadowsAreTheStack /\ OneSearchPerImport
=============================================================================
