---------------------------- MODULE CaptureLeases ----------------------------
(***************************************************************************)
(* The process-wide hooks of detailed capture, shared with other tools:    *)
(* the chain of builtins.__import__ wrappers and the profilers.            *)
(*                                                                         *)
(* Code: enable_import_results, enable_import_calls, the wrapper of        *)
(* _make_import_wrapper, _uninstall_import_results and                     *)
(* _uninstall_import_calls (_detailed_capture.py).                         *)
(*                                                                         *)
(* A wrapper is the number of the installation that made it, or Tool.  It  *)
(* calls the one it was made over, so the chain is a sequence, the current *)
(* builtins.__import__ first.  Our wrappers look at the monitor's flags,   *)
(* not at their own installation's.  sys.setprofile() is per thread; a new *)
(* thread starts with what threading.setprofile() was given.               *)
(*                                                                         *)
(* Operators whose name starts with M are faults the checks are measured   *)
(* with: each stands for a plausible mistake in the definition below it.   *)
(***************************************************************************)
EXTENDS Naturals, Sequences, SequencesExt, FiniteSets

CONSTANTS
  Threads, Nobody,
  Tool,         \* the other tool's wrapper or profiler
  NoProfiler,
  MaxInstalls, MaxTools  \* bounds: installations, steps of the other tool

\* Assumed of the constants where the module is instantiated.
ConstantsAssumption ==
  /\ Nobody \notin Threads
  /\ Tool \notin Nat /\ NoProfiler \notin Nat /\ Tool # NoProfiler
  /\ MaxInstalls \in Nat \ {0} /\ MaxTools \in Nat

Ours == 1..MaxInstalls

VARIABLES
  chain,            \* builtins.__import__ and what it delegates to
  callsOn, wrapper, \* _detailed_import_calls, _import_wrapper_lease
  sysProfile,       \* sys.getprofile() in each thread
  threadProfile,    \* threading.getprofile()
  started,          \* the threads that run
  resultsOn, saved, \* _detailed_import_results; `previous` of the two leases
  holder, pc,        \* who installs or uninstalls, and where
  installs, tools,  \* bounds: so far
  refused,          \* _import_results_capture_status is a refusal
  buried,           \* history: uninstall() left a wrapper under a tool's
  strayed,          \* history: uninstall() left our profiler in a thread
  raced             \* history: another tool changed a profiler between the
                    \* test and the set

imports  == <<chain, callsOn, wrapper>>
profiles == <<sysProfile, threadProfile, started>>
results  == <<resultsOn, saved, refused>>
history  == <<buried, strayed, raced>>
vars == <<imports, profiles, results, holder, pc, installs, tools, history>>

Profilers == {Tool, NoProfiler} \union Ours
Leases == [sys : Profilers, thread : Profilers]
NoLease == [sys |-> NoProfiler, thread |-> NoProfiler]

TypeOK ==
  /\ chain \in Seq(Ours \union {Tool})
  /\ callsOn \in BOOLEAN /\ wrapper \in 0..MaxInstalls
  /\ sysProfile \in [Threads -> Profilers] /\ threadProfile \in Profilers
  /\ started \in SUBSET Threads
  /\ resultsOn \in BOOLEAN /\ saved \in Leases /\ refused \in BOOLEAN
  /\ holder \in Threads \union {Nobody}
  /\ pc \in {"rest", "test", "read", "thread", "sys", "calls",
             "unprofile", "unsys", "unthread", "unset", "unwrap"}
  /\ installs \in 0..MaxInstalls /\ tools \in 0..MaxTools
  /\ buried \in BOOLEAN /\ strayed \in BOOLEAN /\ raced \in BOOLEAN

Init ==
  /\ chain = <<>> /\ callsOn = FALSE /\ wrapper = 0
  /\ sysProfile = [t \in Threads |-> NoProfiler]
  /\ threadProfile = NoProfiler
  /\ started \in {s \in SUBSET Threads : Cardinality(s) = 1}
  /\ resultsOn = FALSE /\ saved = NoLease /\ refused = FALSE
  /\ holder = Nobody /\ pc = "rest" /\ installs = 0 /\ tools = 0
  /\ buried = FALSE /\ strayed = FALSE /\ raced = FALSE

On == callsOn \/ resultsOn

(***************************************************************************)
(* enable_import_results() and enable_import_calls().                      *)
(***************************************************************************)
InstallBegin(t) ==
  /\ holder = Nobody /\ ~On /\ installs < MaxInstalls /\ t \in started
  /\ holder' = t /\ pc' = "test" /\ installs' = installs + 1
  /\ UNCHANGED <<imports, profiles, results, tools, history>>

Taken(t) == sysProfile[t] # NoProfiler \/ threadProfile # NoProfiler

TestProfilers(t) ==
  /\ holder = t /\ pc = "test"
  /\ refused' = Taken(t) /\ resultsOn' = ~Taken(t)
  /\ pc' = IF Taken(t) THEN "calls" ELSE "read"
  /\ UNCHANGED <<imports, profiles, saved, holder, installs, tools, history>>

\* Both previous profilers are read again before the first is replaced.
ReadProfilers(t) ==
  /\ holder = t /\ pc = "read"
  /\ saved' = [sys |-> sysProfile[t], thread |-> threadProfile]
  /\ pc' = "thread"
  /\ UNCHANGED <<imports, profiles, resultsOn, refused, holder, installs, tools,
                 history>>

SetThreadProfile(t) ==
  /\ holder = t /\ pc = "thread"
  /\ threadProfile' = installs
  /\ pc' = "sys"
  /\ UNCHANGED <<imports, sysProfile, started, results, holder, installs, tools,
                 history>>

SetSysProfile(t) ==
  /\ holder = t /\ pc = "sys"
  /\ sysProfile' = [sysProfile EXCEPT ![t] = installs]
  /\ pc' = "calls"
  /\ UNCHANGED <<imports, threadProfile, started, results, holder, installs,
                 tools, history>>

EnableCalls(t) ==
  /\ holder = t /\ pc = "calls"
  /\ chain' = <<installs>> \o chain
  /\ callsOn' = TRUE /\ wrapper' = installs
  /\ holder' = Nobody /\ pc' = "rest"
  /\ UNCHANGED <<profiles, results, installs, tools, history>>

(***************************************************************************)
(* uninstall(), by any thread.                                             *)
(***************************************************************************)
UninstallBegin(t) ==
  /\ holder = Nobody /\ On /\ t \in started
  /\ holder' = t /\ pc' = "unprofile"
  /\ UNCHANGED <<imports, profiles, results, installs, tools, history>>

MStillOurs(current) == TRUE
\* A profiler is taken off only while it is the installed one.
StillOurs(current) == current = installs

TestSysProfile(t) ==
  /\ holder = t /\ pc = "unprofile"
  /\ pc' = IF ~resultsOn THEN "unwrap"
           ELSE IF StillOurs(sysProfile[t]) THEN "unsys" ELSE "unthread"
  /\ UNCHANGED <<imports, profiles, results, holder, installs, tools, history>>

RestoreSysProfile(t) ==
  /\ holder = t /\ pc = "unsys"
  /\ sysProfile' = [sysProfile EXCEPT ![t] = saved.sys]
  /\ pc' = "unthread"
  /\ UNCHANGED <<imports, threadProfile, started, results, holder, installs,
                 tools, history>>

\* The leases are given up and the results are off.
LeaveResults ==
  /\ resultsOn' = FALSE /\ saved' = NoLease
  /\ strayed' = (strayed \/ \E u \in Threads : sysProfile[u] \in Ours)
  /\ pc' = "unwrap"

TestThreadProfile(t) ==
  /\ holder = t /\ pc = "unthread"
  /\ \/ StillOurs(threadProfile) /\ pc' = "unset"
        /\ UNCHANGED <<resultsOn, saved, strayed>>
     \/ ~StillOurs(threadProfile) /\ LeaveResults
  /\ UNCHANGED <<imports, profiles, refused, holder, installs, tools, buried,
                 raced>>

RestoreThreadProfile(t) ==
  /\ holder = t /\ pc = "unset"
  /\ threadProfile' = saved.thread
  /\ LeaveResults
  /\ UNCHANGED <<imports, sysProfile, started, refused, holder, installs, tools,
                 buried, raced>>

MIsCurrent == chain = <<wrapper>>
IsCurrent == chain # <<>> /\ Head(chain) = wrapper

\* Taken off only while it is the current one.
UninstallCalls(t) ==
  /\ holder = t /\ pc = "unwrap"
  /\ IF IsCurrent
       THEN chain' = Tail(chain) /\ UNCHANGED buried
       ELSE /\ buried' = (buried \/ (wrapper \in Range(chain)
                                    /\ Head(chain) = Tool))
            /\ UNCHANGED chain
  /\ callsOn' = FALSE /\ wrapper' = 0
  /\ holder' = Nobody /\ pc' = "rest"
  /\ UNCHANGED <<profiles, results, installs, tools, strayed, raced>>

(***************************************************************************)
(* The rest of the process.                                                *)
(***************************************************************************)
StartThread(t) ==
  /\ t \notin started
  /\ started' = started \union {t}
  /\ sysProfile' = [sysProfile EXCEPT ![t] = threadProfile]
  /\ UNCHANGED <<imports, threadProfile, results, holder, pc, installs, tools,
                 history>>

\* Another tool wraps __import__; it unwraps by putting back what it found.
ToolWraps ==
  /\ tools < MaxTools /\ tools' = tools + 1
  /\ \/ Tool \notin Range(chain) /\ chain' = <<Tool>> \o chain
     \/ \E k \in DOMAIN chain :
          chain[k] = Tool /\ chain' = SubSeq(chain, k + 1, Len(chain))
  /\ UNCHANGED <<callsOn, wrapper, profiles, results, holder, pc, installs,
                 history>>

\* What the holder has tested and not yet set.
Window ==
  [sys |-> {"read", "thread", "sys", "unsys"},
   thread |-> {"read", "thread", "unset"}]

\* It sets or clears a profiler of its own, from a thread that is not inside
\* install() or uninstall(): that thread's, the one of new threads, or those of
\* all threads (threading.setprofile_all_threads).
ToolProfiles(t) ==
  /\ tools < MaxTools /\ tools' = tools + 1 /\ t \in started \ {holder}
  /\ \/ sysProfile' = [sysProfile EXCEPT
                         ![t] = IF @ = Tool THEN NoProfiler ELSE Tool]
        /\ UNCHANGED threadProfile
     \/ threadProfile' = (IF threadProfile = Tool THEN NoProfiler ELSE Tool)
        /\ UNCHANGED sysProfile
     \/ \E profile \in {Tool, NoProfiler} :
          /\ sysProfile' = [u \in Threads |->
               IF u \in started THEN profile ELSE sysProfile[u]]
          /\ threadProfile' = profile
  /\ raced' = \/ raced
              \/ pc \in Window.sys /\ sysProfile'[holder] # sysProfile[holder]
              \/ pc \in Window.thread /\ threadProfile' # threadProfile
  /\ UNCHANGED <<imports, started, results, holder, pc, installs, buried,
                 strayed>>

Next ==
  \/ ToolWraps
  \/ \E t \in Threads :
       \/ InstallBegin(t) \/ TestProfilers(t) \/ ReadProfilers(t)
       \/ SetThreadProfile(t) \/ SetSysProfile(t) \/ EnableCalls(t)
       \/ UninstallBegin(t) \/ TestSysProfile(t) \/ RestoreSysProfile(t)
       \/ TestThreadProfile(t) \/ RestoreThreadProfile(t)
       \/ UninstallCalls(t)
       \/ StartThread(t) \/ ToolProfiles(t)

Spec == Init /\ [][Next]_vars

(***************************************************************************)
(* Properties.                                                             *)
(***************************************************************************)
\* One import statement makes at most one ImportCall record, and none of our
\* wrappers is left when monitoring is off.  A wrapper that uninstall() had
\* to leave beneath another tool's loses both: it is dead weight, and the
\* next installation brings it back to life (enable_import_calls).
OneRecordPerImport ==
  ~buried => Cardinality({i \in DOMAIN chain : chain[i] \in Ours})
               <= (IF wrapper = 0 THEN 0 ELSE 1)

\* "It never replaces an existing profiler" (docs/configuration.md:60): only
\* the tool itself takes its profiler away.  The exception is a profiler that
\* appears between a test and the set it allows (enable_import_results,
\* _uninstall_import_results): from then on nothing is claimed.
ForeignProfilerStays ==
  [][~raced' /\ tools' = tools =>
       /\ threadProfile = Tool => threadProfile' = Tool
       /\ \A t \in started : sysProfile[t] = Tool => sysProfile'[t] = Tool]_vars

\* Profiling is refused only because of somebody else's profiler.  An
\* uninstall() in another thread than the installing one leaves our own
\* behind, and that is refused too (enable_import_results).
RefusalIsForeign ==
  [][pc = "test" /\ pc' = "calls" /\ ~strayed =>
       \E t \in Threads : holder = t /\ Tool \in {sysProfile[t], threadProfile}]_vars

(***************************************************************************)
(* What carries them from step to step.                                    *)
(***************************************************************************)
\* One thread installs or uninstalls, and the flags are what its place says.
HolderFits ==
  /\ holder = Nobody <=> pc = "rest"
  /\ holder # Nobody => holder \in started
  /\ pc \in {"test", "read", "thread", "sys", "calls"} =>
       installs # 0 /\ ~callsOn
  /\ pc \in {"test", "unwrap"} => ~resultsOn
  /\ pc \in {"read", "thread", "sys", "unsys", "unthread", "unset"} => resultsOn
  /\ resultsOn => installs # 0

\* While none is buried, the one wrapper of ours in the chain is the leased one.
WrapperFits ==
  /\ callsOn <=> wrapper # 0
  /\ ~buried =>
       /\ \A i \in 1..Len(chain) : chain[i] \in Ours => chain[i] = wrapper
       /\ \A i, j \in 1..Len(chain) : chain[i] \in Ours /\ chain[j] \in Ours => i = j

\* The threading profiler is ours only while an installation stands, and never
\* what that has to put back; a thread's own is ours afterwards only if strayed;
\* and unless raced what was tested is so until it is set.
ProfilersFit ==
  /\ threadProfile \in Ours =>
       resultsOn /\ threadProfile = installs /\ pc \notin {"read", "thread"}
  /\ saved.thread \notin Ours
  /\ ~strayed /\ ~resultsOn => \A t \in Threads : sysProfile[t] \notin Ours
  /\ ~raced =>
       /\ pc \in {"read", "thread", "sys"} => sysProfile[holder] = NoProfiler
       /\ pc \in {"read", "thread"} => threadProfile = NoProfiler
       /\ pc = "unsys" => sysProfile[holder] = installs
       /\ pc = "unset" => threadProfile = installs

LeaseInv == TypeOK /\ HolderFits /\ WrapperFits /\ ProfilersFit
=============================================================================
