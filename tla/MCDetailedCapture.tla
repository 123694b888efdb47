------------------------- MODULE MCDetailedCapture -------------------------
(***************************************************************************)
(* Detailed capture in three parts that share no state the properties tell *)
(* apart: what one profiled thread records (ImportProfiling), the          *)
(* process-wide hooks it is recorded through (CaptureLeases), and the      *)
(* calls the unsafe mode adds (BranchExploration).  A behaviour is one of  *)
(* them.                                                                   *)
(***************************************************************************)
EXTENDS ImportProfiling

CONSTANTS Threads, Nobody, Tool, NoProfiler, MaxInstalls, MaxTools
CONSTANTS MetaPath, Entries, Hooks, NoCall, MaxStarts, MaxSteps

VARIABLES
  part,  \* which part moves
  chain, callsOn, wrapper, sysProfile, threadProfile, started, resultsOn,
  saved, holder, pc, installs, tools, refused, buried, strayed, raced,
  phase, active, loops, call, named, trigger, log, disturbed, starts, steps

leaseVars == <<chain, callsOn, wrapper, sysProfile, threadProfile, started,
               resultsOn, saved, holder, pc, installs, tools, refused, buried,
               strayed, raced>>

exploreVars == <<phase, active, loops, call, named, trigger, log, disturbed,
                 starts, steps>>

Leases == INSTANCE CaptureLeases
Explorer == INSTANCE BranchExploration
              WITH changes <- steps, MaxChanges <- MaxSteps

ASSUME PartsAssumption ==
  Leases!ConstantsAssumption /\ Explorer!ConstantsAssumption

MCInit ==
  /\ Init /\ Leases!Init /\ Explorer!Init
  /\ part \in {"profiling", "leases", "exploration"}

ProfilingStep ==
  part = "profiling" /\ Next /\ UNCHANGED <<leaseVars, exploreVars>>
LeaseStep ==
  part = "leases" /\ Leases!Next /\ UNCHANGED <<vars, exploreVars>>
ExploreStep ==
  part = "exploration" /\ Explorer!Next /\ UNCHANGED <<vars, leaseVars>>
MCNext == (ProfilingStep \/ LeaseStep \/ ExploreStep) /\ UNCHANGED part

MCSpec == MCInit /\ [][MCNext]_<<vars, leaseVars, exploreVars, part>>

\* Ordinary names differ in nothing, nor do threads.
Alike == Permutations(Names \ Odd) \union Permutations(Threads)

\* After the stacks have parted nothing is claimed about them.
NotSkewed == ~skewed

\* While no wrapper was left beneath another tool's, an import statement makes
\* at most one ImportCall record and none of our wrappers outlives uninstall()
\* (enable_import_calls, _uninstall_import_calls); with the inductive invariant
\* of the leases it rests on.
OneRecordPerImport == Leases!LeaseInv /\ Leases!OneRecordPerImport

\* "It never replaces an existing profiler" (docs/configuration.md:60), but
\* for one that appears between the test and the set; and profiling is refused
\* only because of another tool's profiler, unless an uninstall() left our own
\* in a thread (enable_import_results, _uninstall_import_results).
ProfilersOfOthers == Leases!ForeignProfilerStays /\ Leases!RefusalIsForeign

\* What an import is recorded with is its own: the finder calls and the result
\* of the frame they ran in, and the one search of its __import__
\* (_profile_import_boundary, _profile_path_finder, active_import_search_id).
RecordsJoin == RecordsOwnImport /\ OneSearchPerImport

\* Whatever a candidate imports, there is one exploration, and the flag that
\* says so is down after it (active of _branch_exploration.py); with the
\* inductive invariant of the explorer it rests on.
OneExploration == Explorer!ExploreInv

\* An exploration nothing cut short called exactly the candidates after the
\* one that answered, each once and in order (_run_meta_candidates,
\* _run_later_path_entries, _run_hooks).
ExploresEveryLaterSibling == Explorer!ExploresEveryLaterSibling
=============================================================================
