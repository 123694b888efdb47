------------------------ MODULE MCMonitorLifecycle ------------------------
(* Model values and symmetry for the runs of MonitorLifecycle. *)
EXTENDS MonitorLifecycle, TLC

\* All lists, and all but sys.meta_path; both with the import audit hook.
MostRequests == {[lists |-> Kinds, audit |-> TRUE],
                 [lists |-> Kinds \ {MetaPath}, audit |-> TRUE]}
ThreadSymmetry == Permutations(Threads)
=============================================================================
