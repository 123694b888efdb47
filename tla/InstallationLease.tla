------------------------- MODULE InstallationLease -------------------------
(***************************************************************************)
(* What monitoring() promises to the regions of a program: one monitor is  *)
(* shared by everybody who holds a lease on it, it is active as long as    *)
(* somebody does, and giving back the last lease leaves monitoring as it   *)
(* was before the first one was taken (docstring of monitoring() in        *)
(* _runtime.py, docs/api.md).                                              *)
(***************************************************************************)
CONSTANT Regions

VARIABLES
  holders,   \* the regions that hold a lease
  active,    \* monitoring is on
  before     \* monitoring was on already when the program entered a region

Init == holders = {} /\ before \in BOOLEAN /\ active = before

Take(r) ==
  /\ r \notin holders
  /\ holders' = holders \union {r}
  /\ active' = TRUE
  /\ UNCHANGED before

GiveBack(r) ==
  /\ r \in holders
  /\ holders' = holders \ {r}
  /\ active' = (before \/ holders' # {})
  /\ UNCHANGED before

Next == \E r \in Regions : Take(r) \/ GiveBack(r)

Spec == Init /\ [][Next]_<<holders, active, before>>
=============================================================================
