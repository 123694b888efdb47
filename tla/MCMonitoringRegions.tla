------------------------ MODULE MCMonitoringRegions ------------------------
(* Model values and symmetry for the runs of MonitoringRegions. *)
EXTENDS MonitoringRegions, TLC

ActorSymmetry == Permutations(Regions) \union Permutations(Callers)
=============================================================================
